---- MODULE Spec2Model ----
(***************************************************************************)
(* Model of the news_scraping ingestion pipeline:                          *)
(*   app/scrapers/base_scraper.py       BaseScraper.run                    *)
(*   app/controllers/scraper_controller.py  run_scraper, run_all_scrapers  *)
(*   app/services/api_client.py         post_news_data, check_article_exists*)
(*   app/routers/api.py, app/routers/monitoring.py   the trigger paths     *)
(*   app/core/scheduler.py              the interval job                   *)
(*                                                                         *)
(* A task is one thread of control executing a run: the scheduler's job    *)
(* thread, a FastAPI background task, the event loop inside the monitoring *)
(* trigger, or the main thread of run_scraper.py.                          *)
(***************************************************************************)
EXTENDS Integers, Sequences, FiniteSets, TLC

(* ------------------------------ bounds -------------------------------- *)
MaxTasks == 2        \* task slots (threads that can execute a run at once)
MaxTriggers == 2     \* run triggers accepted in one behaviour of Spec
RunLinks == 2        \* length of a discovery list in SpecRun
StopLinks == 6       \* length of a discovery list in SpecStop
PostLinks == 2       \* length of the collected list in SpecPost
ServerLinks == 1     \* length of a discovery list in Spec
NumDates == 2        \* distinct publication days in a discovery list
UnitsPerDay == 2     \* instants in a day in SpecAge
MaxAgeDays == 4      \* largest max_age_days tried in SpecAge
MaxHtmlLen == 4      \* tokens of a markup in SpecFix
MaxBlocks == 2       \* blocks of an article in SpecContent
MaxRetries == 4      \* largest APIClient.max_retries tried in SpecPost
ImageLinks == 1      \* length of a discovery list in SpecImages
MaxImages == 1       \* inline images of an article in SpecImages
SortLinks == 3       \* links of a listing in SpecSort

(* -------------------------- program constants ------------------------- *)
DuplicateThreshold == 5     \* base_scraper.py:189
AgeCap == 3                \* mihan_blockchain.py:99, min(self.max_age_days, 3) in get_article_links
DefaultMaxRetries == 3      \* api_client.py:20

Sources == {"mihan_blockchain", "arzdigital"}
SourceOrder == <<"mihan_blockchain", "arzdigital">>

\* BaseScraper.source_name as passed to super().__init__ by each adapter
SourceName(s) == IF s = "mihan_blockchain" THEN "MihanBlockchain" ELSE "ArzDigital"

Tasks == 1..MaxTasks

\* the k-th article URL of a source's site: the sites share no URL
SiteOffset == StopLinks + 1
SiteUrl(s, k) == IF s = "mihan_blockchain" THEN k ELSE SiteOffset + k
Urls == 1..(2 * SiteOffset)
Dates == 1..NumDates

Range(s) == {s[k] : k \in 1..Len(s)}

RECURSIVE Pow2(_)
Pow2(n) == IF n = 0 THEN 1 ELSE 2 * Pow2(n - 1)

(* ----------------------------- data model ----------------------------- *)
\* ArticleLinkModel: link and date (day number; the code keeps 'YYYY-MM-DD'
\* strings, whose lexicographic order is the order of the days)
LinkRecord(u, d) == [link |-> u, date |-> d]

\* the titles a page can yield and the sizes of the content map
Titles == {"", "N/A"}
ContentMaps == {"empty", "keys"}
ContentSize(c) == IF c = "empty" THEN 0 ELSE 1

\* an article whose images were handed to upload_image, by the adapter's
\* process_article_content or by BaseScraper.run, and the arguments of the
\* calls of upload_image, in order
Upload(u, by, args) == [url |-> u, by |-> by, args |-> args]

\* Image URLs: 1 is the thumbnail of a page, 2..(MaxImages + 1) are its inline
\* images; the URL the image store answers for an upload of u is Hosted(u)
SourceImages == 1..(MaxImages + 1)
IsHosted(u) == u > MaxImages + 1
Hosted(u) == IF IsHosted(u) THEN u ELSE u + MaxImages + 1

\* the inline images extract_and_replace_images can find in a page
ImageLists == {[k \in 1..n |-> k + 1] : n \in 0..MaxImages}

\* thumb 0 is None
NoArticle == [url |-> 0, title |-> "", content |-> 0, thumb |-> 0, images |-> <<>>]

\* summary of a returned call of post_news_data: the responses of its POSTs,
\* its sleeps, and whether it returned (ok) or raised
NoCall == [url |-> 0, outcomes |-> <<>>, waits |-> <<>>, ok |-> FALSE]

IdleTask ==
  [kind |-> "none", pc |-> "idle", todo |-> <<>>, src |-> "none",
   links |-> <<>>, i |-> 0, processed_urls |-> {}, existing |-> 0,
   cur |-> NoArticle, collected |-> <<>>, j |-> 0, attempt |-> 0,
   waits |-> <<>>, outcomes |-> <<>>, successful |-> <<>>, call |-> NoCall,
   answers |-> <<>>, fetched |-> <<>>, uploads |-> <<>>, failed |-> {},
   stopped |-> FALSE, results |-> 0, raised |-> FALSE,
   run |-> 0, total |-> 0, run_error |-> FALSE, delays |-> 0]

\* RunState, an entry of _scraping_progress (ended: end_time is set; error: the
\* error message is set); a key the dict does not hold has status "absent"
IdleRunState ==
  [status |-> "idle", progress |-> 0, found |-> 0, processed |-> 0,
   ended |-> FALSE, error |-> FALSE]
FreshRunState == [IdleRunState EXCEPT !.status = "running"]
NoRunState == [IdleRunState EXCEPT !.status = "absent"]

\* _last_scrape_results: the run that wrote it (0: never written), and its
\* total_articles when the dict has that key
NoResults == [run |-> 0, has_total |-> FALSE, total |-> 0]

\* no function is applied on its own
NotApplied == [op |-> "none"]

\* the ids a scheduler call can name, and the empty job store
JobIds == {"all_scrapers", "job_x"}

NoJobs == [id \in JobIds |-> "absent"]

\* the last answer of a scheduler or monitoring endpoint
NoResponse == [op |-> "none", arg |-> "none", status |-> "none", removed |-> FALSE]

VARIABLES
  task,                 \* per task: position and locals of the run it executes
  sink,                 \* URLs the remote article store holds
  posted,               \* per URL: number of POSTs the store answered 2xx
  submitted,            \* every article payload sent in a POST attempt
  misanswered,          \* URLs whose existence check failed while the store held them
  max_retries,          \* APIClient.max_retries
  scraping_progress,    \* ScraperController._scraping_progress: status per key
  scraping_in_progress, \* ScraperController._scraping_in_progress
  scraping_logs,        \* ScraperController._scraping_logs: the runs with entries in it
  last_scrape_results,  \* ScraperController._last_scrape_results
  jobs,                 \* the scheduler's job store: the state of each job id
  response,             \* the last answer of a scheduler or monitoring endpoint
  triggers,             \* triggers still accepted (bounds the behaviour)
  scheduler_running,    \* the BackgroundScheduler has been started and not shut down
  arg,                  \* the argument of a function that is applied on its own
  ret                   \* its result, NotApplied before the application

vars == <<task, sink, posted, submitted, misanswered, max_retries, scraping_progress,
          scraping_in_progress, scraping_logs, last_scrape_results, jobs, response,
          triggers, scheduler_running, arg, ret>>

\* what no step of a run and no endpoint changes
fixedVars == <<max_retries, scheduler_running, arg, ret>>

\* what BaseScraper.run and run_scraper leave alone
runFrame == <<scraping_in_progress, last_scrape_results, jobs, response, triggers>>
ctlVars == <<scraping_progress, scraping_logs, runFrame>>
storeVars == <<sink, posted, submitted, misanswered>>

(* ------------------------------ listings ------------------------------ *)
\* Sequences of length <= n over 1..n in which a URL first occurs only after
\* all smaller ones (URLs are interchangeable, so every list is one of these
\* up to renaming).
CanonicalUrlLists(n) ==
  UNION {{s \in [1..m -> 1..n] :
            \A k \in 1..m : \A v \in 1..(s[k] - 1) : \E h \in 1..(k - 1) : s[h] = v}
         : m \in 0..n}

\* discovery lists with repeated URLs and free dates
ListingsWithDates(n) ==
  UNION {{[k \in 1..Len(s) |-> LinkRecord(s[k], d[k])] : d \in [1..Len(s) -> Dates]}
         : s \in CanonicalUrlLists(n)}

\* discovery lists of distinct URLs published the same day
DistinctListings(n) ==
  {[k \in 1..m |-> LinkRecord(k, 1)] : m \in 0..n}

(* --------------------------- pure functions --------------------------- *)
RECURSIVE SortFrom(_, _)
SortFrom(s, d) ==
  IF d = 0 THEN <<>>
  ELSE SelectSeq(s, LAMBDA x : x.date = d) \o SortFrom(s, d - 1)

RECURSIVE SortUpTo(_, _)
SortUpTo(s, d) ==
  IF d = 0 THEN <<>>
  ELSE SortUpTo(s, d - 1) \o SelectSeq(s, LAMBDA x : x.date = d)

\* result.sort(key=lambda x: x.date): a stable sort, oldest first
SortOldestFirst(s) == SortUpTo(s, NumDates)

\* the list left as it is
SortAsListed(s) == s

\* article_links.sort(key=lambda x: x.date, reverse=True): a stable sort,
\* newest first, links of one date in the order the list had them
SortNewestFirst(s) == SortFrom(s, NumDates)

\* the sort that ends get_article_links: MihanBlockchain returns its links
\* oldest first, ArzDigital newest first
get_article_links(source, found) ==
  IF source = "mihan_blockchain" THEN SortOldestFirst(found) ELSE SortNewestFirst(found)

\* BaseScraper.run: the list the for loop walks
article_links(source, found) == SortNewestFirst(get_article_links(source, found))

\* APIClient.check_article_exists: the answer for a response of the store
\* APIClient.upload_image: the new URL, or the original one when the download
\* or the upload raised a RequestException (lines 255-257)
upload_image(image_url, resp) == IF resp = "ok" THEN Hosted(image_url) ELSE image_url

\* "exception" is any exception other than RequestException: it leaves upload_image
UploadResponses == {"ok", "request_exception", "exception"}

\* BaseScraper.run hands upload_image the entries of processed.dict()['imagesUrl'],
\* which are the dicts of the ImageModels and not URLs: no download succeeds
DictUploadResponses == {"request_exception", "exception"}

check_article_exists_closed(resp, url, store) ==
  IF resp = "200" THEN url \in store ELSE TRUE

check_article_exists(resp, url, store) ==
  IF resp = "200" THEN url \in store ELSE FALSE

CheckResponses == {"200", "non200", "exception"}

sleep_seconds_linear(attempt) == attempt + 1

\* sleep_seconds = 2 ** attempt
sleep_seconds(attempt) == Pow2(attempt)

(* ------------------------- BaseScraper.run ---------------------------- *)
Upd(t, r) == task' = [task EXCEPT ![t] = r]

\* locals of a fresh call of run_scraper(source) in task t
EnterRunScraper(r, s) ==
  [r EXCEPT !.pc = "discover", !.src = s, !.links = <<>>, !.i = 0,
            !.processed_urls = {}, !.existing = 0, !.cur = NoArticle,
            !.collected = <<>>, !.j = 0, !.attempt = 0, !.waits = <<>>,
            !.outcomes = <<>>, !.successful = <<>>, !.call = NoCall,
            !.answers = <<>>, !.fetched = <<>>, !.uploads = <<>>,
            !.failed = {}, !.stopped = FALSE, !.delays = 0]

\* the inter-item delay at the end of the loop's body, lines 296-298: the
\* call time.sleep(ARTICLE_DELAY_SECONDS) is commented out, so the count of
\* delays that the run has applied stays as it is
ArticleDelay(delays) == delays

\* the loop's `continue`
Continue(r) == [r EXCEPT !.i = r.i + 1, !.pc = "loop", !.cur = NoArticle]

\* the loop's end: run returns processed_articles, run_scraper starts posting
EndLoop(r) == [r EXCEPT !.pc = "post_loop", !.j = 1, !.cur = NoArticle]

Failure(u, stage) == [url |-> u, stage |-> stage]

SkipItemBreak(r, stage) ==
  EndLoop([r EXCEPT !.failed = @ \cup {Failure(r.links[r.i].link, stage)}])

\* an item that failed at a stage is logged and skipped with `continue`
\* (lines 210-218, 222-230, 237-244)
SkipItem(r, stage) ==
  Continue([r EXCEPT !.failed = @ \cup {Failure(r.links[r.i].link, stage)}])

AlreadyProcessedNever(url, processed_urls) == FALSE

\* if url in processed_urls (line 159)
AlreadyProcessed(url, processed_urls) == url \in processed_urls

ReachedThresholdLate(existing) == existing > DuplicateThreshold

\* if articles_existing_in_api >= 5 (line 189)
ReachedThreshold(existing) == existing >= DuplicateThreshold

\* self.source_name in scraper_controller._scraping_progress: the guard of
\* the progress updates of BaseScraper.run (lines 135, 168, 301)
HasRunState(key) ==
  key \in DOMAIN scraping_progress /\ scraping_progress[key].status # "absent"

\* the update of lines 135-140 after discovery
RunFound(s, n) ==
  IF HasRunState(SourceName(s))
    THEN [scraping_progress EXCEPT ![SourceName(s)].found = n,
                                   ![SourceName(s)].progress = 10]
    ELSE scraping_progress

\* progress_percentage of line 167, i counting from 0
progress_percentage(i, n) == IF n > 0 THEN 10 + ((i * 90) \div n) ELSE 100

\* the update of lines 168-174 before an item is checked
RunItem(s, i, n, processed) ==
  IF HasRunState(SourceName(s))
    THEN [scraping_progress EXCEPT ![SourceName(s)].progress = progress_percentage(i, n),
                                   ![SourceName(s)].processed = processed]
    ELSE scraping_progress

\* the update of lines 301-308 when the loop has ended
RunCompleted(s, processed) ==
  IF HasRunState(SourceName(s))
    THEN [scraping_progress EXCEPT ![SourceName(s)].status = "completed",
                                   ![SourceName(s)].progress = 100,
                                   ![SourceName(s)].processed = processed,
                                   ![SourceName(s)].ended = TRUE]
    ELSE scraping_progress

\* _scraping_logs.append by the run of record r
Log(r) == scraping_logs \cup {r.run}

\* get_article_links on the source's listing page, and the sort
Discover(t, listings) ==
  /\ task[t].pc = "discover"
  /\ \E l \in listings :
       LET found == [k \in 1..Len(l) |->
                      LinkRecord(SiteUrl(task[t].src, l[k].link), l[k].date)] IN
       /\ Upd(t, [task[t] EXCEPT !.links = article_links(task[t].src, found), !.i = 1,
                                  !.pc = "loop"])
       /\ scraping_progress' = RunFound(task[t].src, Len(l))
  /\ scraping_logs' = IF HasRunState(SourceName(task[t].src))
                        THEN Log(task[t]) ELSE scraping_logs
  /\ UNCHANGED <<storeVars, fixedVars, runFrame>>

\* head of the for loop: end of list, or the intra-run dedup on processed_urls
LoopHead(t) ==
  LET r == task[t] IN
  /\ r.pc = "loop"
  /\ IF r.i > Len(r.links)
       THEN /\ Upd(t, EndLoop(r))
            /\ scraping_progress' = RunCompleted(r.src, Len(r.collected))
       ELSE LET url == r.links[r.i].link IN
            IF AlreadyProcessed(url, r.processed_urls)
              THEN /\ Upd(t, Continue(r))
                   /\ UNCHANGED scraping_progress
              ELSE /\ Upd(t, [r EXCEPT !.processed_urls = @ \cup {url}, !.pc = "check"])
                   /\ scraping_progress' =
                        RunItem(r.src, r.i - 1, Len(r.links), Len(r.collected))
  /\ UNCHANGED <<storeVars, fixedVars, scraping_logs, runFrame>>

\* the existence check and the duplicate counter (lines 176-199)
CheckExists(t, responses) ==
  LET r == task[t]
      url == r.links[r.i].link IN
  /\ r.pc = "check"
  /\ \E resp \in responses :
       LET ans == check_article_exists(resp, url, sink)
           r1 == [r EXCEPT !.answers = Append(@, [url |-> url, ans |-> ans,
                                                  ok |-> resp = "200"])] IN
       /\ misanswered' = IF resp # "200" /\ url \in sink
                           THEN misanswered \cup {url} ELSE misanswered
       /\ IF ans
            THEN LET r2 == [r1 EXCEPT !.existing = @ + 1] IN
                 IF ReachedThreshold(r2.existing)
                   THEN /\ Upd(t, EndLoop([r2 EXCEPT !.stopped = TRUE]))
                        /\ scraping_progress' = RunCompleted(r.src, Len(r.collected))
                   ELSE /\ Upd(t, Continue(r2))
                        /\ UNCHANGED scraping_progress
            ELSE /\ Upd(t, [r1 EXCEPT !.pc = "fetch"])
                 /\ UNCHANGED scraping_progress
  /\ scraping_logs' = Log(r)
  /\ UNCHANGED <<sink, posted, submitted, fixedVars, runFrame>>

\* get_article_content: None, or the raw article with the title and the
\* thumbnail of the page
GetArticleContent(t, pages, thumbs) ==
  LET r == task[t]
      url == r.links[r.i].link IN
  /\ r.pc = "fetch"
  /\ \E p \in pages, th \in thumbs :
       LET r1 == [r EXCEPT !.fetched = Append(@, url)] IN
       /\ IF p = "none"
            THEN Upd(t, SkipItem(r1, "fetch"))
            ELSE Upd(t, [r1 EXCEPT !.cur = [NoArticle EXCEPT !.url = url, !.title = p,
                                                          !.thumb = th],
                                   !.pc = "process"])
       /\ scraping_logs' = IF p = "none" THEN Log(r) ELSE scraping_logs
  /\ UNCHANGED <<storeVars, fixedVars, scraping_progress, runFrame>>

\* the calls of upload_image in process_article_content (lines 186-209): the
\* thumbnail if there is one, then the inline images in order, up to the
\* first call that an exception leaves
AdapterUploads(thumb, im, f) ==
  LET thumbnail == IF thumb = 0 THEN <<>> ELSE <<thumb>>
      raising == {k \in 0..Len(im) : f[k] = "exception" /\ (k > 0 \/ thumb # 0)}
      last == IF raising = {} THEN Len(im)
              ELSE CHOOSE k \in raising : \A k2 \in raising : k <= k2 IN
  thumbnail \o SubSeq(im, 1, last)

\* the calls of upload_image in BaseScraper.run (lines 250-275): the
\* thumbnail of the processed article if it has one, then every entry of its
\* imagesUrl
RunUploads(cur) == (IF cur.thumb = 0 THEN <<>> ELSE <<cur.thumb>>) \o cur.images

\* process_article_content: None for a page without HTML ("none"); else the
\* thumbnail and the inline images go to upload_image, and the result is None
\* after an exception ("error", or one that left upload_image) or the
\* structured article with its content map and the URLs upload_image returned
ProcessArticleContent(t, outs, imageLists, ups) ==
  LET r == task[t]
      url == r.links[r.i].link IN
  /\ r.pc = "process"
  /\ \E c \in outs, im \in imageLists :
     \E f \in [0..Len(im) -> ups] :
       LET r1 == [r EXCEPT !.uploads =
                    Append(@, Upload(url, "adapter", AdapterUploads(r.cur.thumb, im, f)))]
           thumb == IF r.cur.thumb = 0 THEN 0 ELSE upload_image(r.cur.thumb, f[0])
           images == [k \in 1..Len(im) |-> upload_image(im[k], f[k])]
           raised == \/ r.cur.thumb # 0 /\ f[0] = "exception"
                     \/ \E k \in 1..Len(im) : f[k] = "exception" IN
       CASE c = "none" -> Upd(t, SkipItem(r, "process")) /\ scraping_logs' = Log(r)
         [] c = "error" \/ raised ->
              Upd(t, SkipItem(r1, "process")) /\ scraping_logs' = Log(r)
         [] OTHER -> /\ Upd(t, [r1 EXCEPT !.cur.content = ContentSize(c),
                                          !.cur.thumb = thumb, !.cur.images = images,
                                          !.pc = "validate"])
                     /\ UNCHANGED scraping_logs
  /\ UNCHANGED <<storeVars, fixedVars, scraping_progress, runFrame>>

IsValidTitleOnly(a) == a.title # ""

\* the validation of lines 236-244
IsValid(a) == a.title # "" /\ a.content # 0

\* lines 252-261: the thumbnail goes to upload_image again; an exception
\* leaving upload_image makes it None
RunThumbnail(thumb, resp) ==
  IF thumb = 0 \/ resp = "exception" THEN 0 ELSE upload_image(thumb, resp)

\* lines 264-275: every entry of imagesUrl goes to upload_image, which returns
\* it (RequestException) or is left by an exception, and then the entry is
\* not appended
RunImages(images, g) ==
  SelectSeq([k \in 1..Len(images) |-> IF g[k] = "exception" THEN 0 ELSE images[k]],
            LAMBDA u : u # 0)

\* validation, then the images go to upload_image again and the article
\* joins processed_articles (lines 233-294)
Validate(t, ups) ==
  LET r == task[t]
      url == r.links[r.i].link IN
  /\ r.pc = "validate"
  /\ IF IsValid(r.cur)
       THEN \E resp \in ups :
            \E g \in [1..Len(r.cur.images) -> DictUploadResponses] :
              LET a == [r.cur EXCEPT !.thumb = RunThumbnail(@, resp),
                                     !.images = RunImages(@, g)] IN
              /\ Upd(t, Continue([r EXCEPT !.uploads =
                                             Append(@, Upload(url, "run", RunUploads(r.cur))),
                                           !.collected = Append(@, a),
                                           !.delays = ArticleDelay(@)]))
              /\ scraping_logs' = Log(r)
       ELSE /\ Upd(t, SkipItem(r, IF r.cur.title = "" THEN "title" ELSE "content"))
            /\ UNCHANGED scraping_logs
  /\ UNCHANGED <<storeVars, fixedVars, scraping_progress, runFrame>>

(* ------------- ScraperController.run_scraper: the post loop ----------- *)
\* for idx, article in enumerate(collected_articles): the next article enters
\* post_news_data, or run_scraper returns successful_articles
PostLoop(t) ==
  LET r == task[t] IN
  /\ r.pc = "post_loop"
  /\ IF r.j > Len(r.collected)
       THEN /\ Upd(t, [r EXCEPT !.pc = "ret", !.results = Len(r.successful)])
            /\ UNCHANGED scraping_logs
       ELSE /\ Upd(t, [r EXCEPT !.pc = "post", !.attempt = 0, !.outcomes = <<>>,
                                !.waits = <<>>])
            /\ scraping_logs' = Log(r)
  /\ UNCHANGED <<storeVars, fixedVars, scraping_progress, runFrame>>

LastAttemptEarly(attempt, retries) == attempt >= retries - 2

\* if attempt == self.max_retries - 1: raise (line 150)
LastAttempt(attempt, retries) == attempt = retries - 1

\* post_news_data raised: run_scraper's except logs it and goes to the next
\* article (lines 136-145)
PostFailed(r, outs) ==
  [r EXCEPT !.failed = @ \cup {Failure(r.collected[r.j].url, "post")},
            !.j = @ + 1, !.pc = "post_loop", !.outcomes = outs,
            !.call = [url |-> r.collected[r.j].url, outcomes |-> outs,
                      waits |-> r.waits, ok |-> FALSE]]

\* post_news_data returned: the article joins successful_articles (line 129)
PostSucceeded(r, outs) ==
  [r EXCEPT !.successful = Append(@, r.collected[r.j]),
            !.j = @ + 1, !.pc = "post_loop", !.outcomes = outs,
            !.call = [url |-> r.collected[r.j].url, outcomes |-> outs,
                      waits |-> r.waits, ok |-> TRUE]]

\* one iteration of `for attempt in range(self.max_retries)` (lines 113-162):
\* the POST, then return on 2xx, raise after the last attempt, or sleep;
\* with the range exhausted the call raises at line 164
PostAttempt(t, responses) ==
  LET r == task[t]
      a == r.collected[r.j] IN
  /\ r.pc = "post"
  /\ IF r.attempt >= max_retries
       THEN /\ Upd(t, PostFailed(r, r.outcomes))
            /\ scraping_logs' = Log(r)
            /\ UNCHANGED <<sink, posted, submitted>>
       ELSE /\ submitted' = submitted \cup {a}
            /\ \E resp \in responses :
                 LET outs == Append(r.outcomes, resp) IN
                 IF resp = "2xx"
                   THEN /\ sink' = sink \cup {a.url}
                        /\ posted' = [posted EXCEPT ![a.url] = @ + 1]
                        /\ Upd(t, PostSucceeded(r, outs))
                        /\ scraping_logs' = Log(r)
                   ELSE /\ UNCHANGED <<sink, posted>>
                        /\ IF LastAttempt(r.attempt, max_retries)
                             THEN /\ Upd(t, PostFailed(r, outs))
                                  /\ scraping_logs' = Log(r)
                             ELSE /\ Upd(t, [r EXCEPT
                                              !.outcomes = outs, !.attempt = @ + 1,
                                              !.waits = Append(@, sleep_seconds(r.attempt))])
                                  /\ UNCHANGED scraping_logs
  /\ UNCHANGED <<misanswered, fixedVars, scraping_progress, runFrame>>

PostResponses == {"2xx", "error"}

(* ---------------- run_scraper.py: one run from the shell -------------- *)
\* run_scraper has returned to run_scraper.py (line 42), which keeps and
\* prints the results, or to the background task of POST /scrape/{source_name},
\* which ends there
RunScraperReturn(t) ==
  /\ task[t].kind \in {"cli", "api_one"}
  /\ task[t].pc = "ret"
  /\ IF task[t].kind = "cli"
       THEN Upd(t, [task[t] EXCEPT !.pc = "done"])
       ELSE Upd(t, [IdleTask EXCEPT !.kind = "api_one", !.pc = "done"])
  /\ UNCHANGED <<storeVars, fixedVars, ctlVars>>

\* ScraperController.__init__ and _initialize_scrapers
InitControllerState ==
  /\ scraping_progress = [s \in Sources |-> IdleRunState]
  /\ scraping_in_progress = FALSE
  /\ scraping_logs = {}
  /\ last_scrape_results = NoResults
  /\ response = NoResponse
  /\ scheduler_running = TRUE
  /\ max_retries = DefaultMaxRetries

InitController ==
  /\ InitControllerState
  /\ arg = NotApplied
  /\ ret = NotApplied

\* a function of the program is applied on its own to an argument of args:
\* nothing runs
InitFunction(args) ==
  /\ InitControllerState
  /\ task = [t \in Tasks |-> IdleTask]
  /\ sink = {}
  /\ posted = [u \in Urls |-> 0]
  /\ submitted = {}
  /\ misanswered = {}
  /\ jobs = NoJobs
  /\ triggers = 0
  /\ arg \in args
  /\ ret = NotApplied

CliTask(s) == EnterRunScraper([IdleTask EXCEPT !.kind = "cli", !.run = 1], s)

\* the state in which run_scraper.py calls controller.run_scraper, the store
\* holding any of the first n URLs
InitCli(n) ==
  /\ InitController
  /\ task = [t \in Tasks |-> IF t = 1 THEN CliTask("mihan_blockchain") ELSE IdleTask]
  /\ sink \in SUBSET (1..n)
  /\ posted = [u \in Urls |-> 0]
  /\ submitted = {}
  /\ misanswered = {}
  /\ jobs = NoJobs
  /\ triggers = 0

InitRun == InitCli(RunLinks)

Pages == {"none"} \cup Titles
Processed == {"none", "error"} \cup ContentMaps

RunStep(t, listings) ==
  \/ Discover(t, listings)
  \/ LoopHead(t)
  \/ CheckExists(t, CheckResponses)
  \/ GetArticleContent(t, Pages, {0})
  \/ ProcessArticleContent(t, Processed, {<<>>}, {"ok"})
  \/ Validate(t, {"ok"})
  \/ PostLoop(t)
  \/ PostAttempt(t, PostResponses)

NextRun == \E t \in Tasks : RunStep(t, ListingsWithDates(RunLinks)) \/ RunScraperReturn(t)

SpecRun == InitRun /\ [][NextRun]_vars

(* ------ SpecRunLive: SpecRun with peers that may never answer ------- *)
\* the peer of the thread's next outbound call never answers: requests.get of
\* get_html, session.post of check_article_exists and of post_news_data are
\* made without a timeout, so the call never returns
CallHangs(t) ==
  LET r == task[t] IN
  /\ \/ r.pc \in {"discover", "check", "fetch"}
     \/ r.pc = "post" /\ r.attempt < max_retries
  /\ Upd(t, [r EXCEPT !.pc = "blocked"])
  /\ UNCHANGED <<storeVars, fixedVars, ctlVars>>

NextRunLive == NextRun \/ \E t \in Tasks : CallHangs(t)

\* the thread of a run takes the next step of the run whenever it has one
RunThread ==
  \A t \in Tasks :
    WF_vars(RunStep(t, ListingsWithDates(RunLinks)) \/ RunScraperReturn(t))

SpecRunLive == InitRun /\ [][NextRunLive]_vars /\ RunThread

(* ------ SpecAge: the age filter of discovery, and is_recent ---------- *)
\* timedelta.days: whole days, rounded down
timedelta_days(delta) == delta \div UnitsPerDay

\* date_utils.is_recent: delta.days < days
is_recent(dt, now, days) == timedelta_days(now - dt) < days

\* get_article_links: time_diff <= timedelta(days=min(self.max_age_days, 3))
within_max_days(article_datetime, current_time, max_age_days) ==
  LET max_days == IF max_age_days < AgeCap THEN max_age_days ELSE AgeCap IN
  current_time - article_datetime <= max_days * UnitsPerDay

\* the instants of SpecAge, in units of 1/UnitsPerDay day: now, and the
\* dates of items from the oldest tried to one day after now
Now == (MaxAgeDays + 2) * UnitsPerDay

Instants == 0..(Now + UnitsPerDay)

\* an item dated dt meets the filter of an adapter with max_age_days = days
\* and is_recent(dt, days)
AgeArgs ==
  {[op |-> "age", dt |-> dt, now |-> Now, days |-> days] :
     dt \in Instants, days \in 1..MaxAgeDays}

InitAge == InitFunction(AgeArgs)

ApplyAgeFilter ==
  /\ arg.op = "age" /\ ret.op = "none"
  /\ ret' = [op |-> "age",
             kept |-> within_max_days(arg.dt, arg.now, arg.days),
             recent |-> is_recent(arg.dt, arg.now, arg.days)]
  /\ UNCHANGED <<task, storeVars, max_retries, scheduler_running, arg, ctlVars>>

SpecAge == InitAge /\ [][ApplyAgeFilter]_vars

(* ------------------- markup as a sequence of tokens ------------------- *)
\* a token of the markup: an opening tag (with the attribute the code looks
\* at: its class), a closing tag, a tag of an element without content (with
\* its data-lazy-src), or a run of text (the sequence of its words)
OpenWith(n, a) == [k |-> "open", n |-> n, a |-> a]
Open(n) == OpenWith(n, "")
Close(n) == [k |-> "close", n |-> n, a |-> ""]
Void(n, a) == [k |-> "void", n |-> n, a |-> a]
Text(w) == [k |-> "text", n |-> w, a |-> ""]

\* the closing tags of the open elements of stack, the innermost first
RECURSIVE CloseAll(_)
CloseAll(stack) ==
  IF stack = <<>> THEN <<>>
  ELSE <<Close(stack[Len(stack)])>> \o CloseAll(SubSeq(stack, 1, Len(stack) - 1))

\* the index of the innermost open element named n, 0 if there is none
RECURSIVE LastOpen(_, _)
LastOpen(stack, n) ==
  IF stack = <<>> THEN 0
  ELSE IF stack[Len(stack)] = n THEN Len(stack)
  ELSE LastOpen(SubSeq(stack, 1, Len(stack) - 1), n)

\* BeautifulSoup(html, 'html.parser'), the tree written as the balanced
\* sequence of its tags and texts: the parser nests every element in
\* the elements that are open, an end tag closes the innermost open element
\* of its name and what is open inside it, and the end of input closes the
\* rest. An end tag without an open element of its name is dropped; the
\* releases of bs4 before 4.9.2 close every open element on it (pops_all).
RECURSIVE soup_parse(_, _, _, _)
soup_parse(html, i, stack, pops_all) ==
  IF i > Len(html) THEN CloseAll(stack)
  ELSE LET tk == html[i]
           at == LastOpen(stack, tk.n) IN
       CASE tk.k = "open" -> <<tk>> \o soup_parse(html, i + 1, Append(stack, tk.n), pops_all)
         [] tk.k \in {"text", "void"} -> <<tk>> \o soup_parse(html, i + 1, stack, pops_all)
         [] OTHER ->
              IF at > 0
                THEN CloseAll(SubSeq(stack, at, Len(stack)))
                       \o soup_parse(html, i + 1, SubSeq(stack, 1, at - 1), pops_all)
                ELSE IF pops_all
                  THEN CloseAll(stack) \o soup_parse(html, i + 1, <<>>, pops_all)
                  ELSE soup_parse(html, i + 1, stack, pops_all)

\* neighbouring runs of text of a markup are one run of text
RECURSIVE merge_text(_)
merge_text(html) ==
  IF Len(html) < 2 THEN html
  ELSE IF html[1].k = "text" /\ html[2].k = "text"
    THEN merge_text(<<Text(html[1].n \o html[2].n)>> \o SubSeq(html, 3, Len(html)))
    ELSE <<html[1]>> \o merge_text(Tail(html))

BeautifulSoup(html, pops_all) == soup_parse(merge_text(html), 1, <<>>, pops_all)

\* str(soup): the strings that neighbour in the tree are one run of text
soup_str(soup) == merge_text(soup)

\* tag.replace_with(f"{tag.get_text()} ") for every element named tag inside a
\* blockquote of the tree: the element becomes its text and a space
RECURSIVE replace_with_text(_, _, _, _, _, _)
replace_with_text(soup, tag, i, in_blockquote, in_tag, text) ==
  IF i > Len(soup) THEN <<>>
  ELSE LET tk == soup[i]
           step(nb, nt, tx) == replace_with_text(soup, tag, i + 1, nb, nt, tx) IN
       IF in_tag > 0
         THEN CASE tk.k = "text" -> step(in_blockquote, in_tag, text \o tk.n)
                [] tk.k = "open" /\ tk.n = tag -> step(in_blockquote, in_tag + 1, text)
                [] tk.k = "close" /\ tk.n = tag ->
                     IF in_tag = 1
                       THEN <<Text(text \o <<" ">>)>> \o step(in_blockquote, 0, <<>>)
                       ELSE step(in_blockquote, in_tag - 1, text)
                [] OTHER -> step(in_blockquote, in_tag, text)
         ELSE CASE tk.k = "open" /\ tk.n = tag /\ in_blockquote > 0 ->
                     step(in_blockquote, 1, <<>>)
                [] tk.k = "open" /\ tk.n = "blockquote" ->
                     <<tk>> \o step(in_blockquote + 1, 0, <<>>)
                [] tk.k = "close" /\ tk.n = "blockquote" ->
                     <<tk>> \o step(in_blockquote - 1, 0, <<>>)
                [] OTHER -> <<tk>> \o step(in_blockquote, 0, <<>>)

\* p_tag.replace_with(*p_tag.contents) for every p inside a blockquote of the
\* tree: the tags of the p go, its contents stay
RECURSIVE unwrap_paragraphs(_, _, _)
unwrap_paragraphs(soup, i, in_blockquote) ==
  IF i > Len(soup) THEN <<>>
  ELSE LET tk == soup[i]
           depth == IF tk.k # "text" /\ tk.n = "blockquote"
                      THEN (IF tk.k = "open" THEN in_blockquote + 1 ELSE in_blockquote - 1)
                      ELSE in_blockquote IN
       (IF tk.k # "text" /\ tk.n = "p" /\ in_blockquote > 0 THEN <<>> ELSE <<tk>>)
         \o unwrap_paragraphs(soup, i + 1, depth)

\* the blockquote pass of fix_html_paragraphs (MihanBlockchain only): inside
\* every blockquote the a and the strong elements become their text and a
\* space, and the p elements are unwrapped
process_blockquotes(soup) ==
  LET no_a == replace_with_text(soup, "a", 1, 0, 0, <<>>)
      no_strong == replace_with_text(no_a, "strong", 1, 0, 0, <<>>) IN
  unwrap_paragraphs(no_strong, 1, 0)

\* the tags of the pattern of fix_html_paragraphs: p, h1-h6, figure, blockquote
ScanTags == {"p", "h1", "h2", "h3", "h4", "h5", "h6", "figure", "blockquote"}

\* the scan of fix_html_paragraphs over the tags of its pattern: a </p> is
\* inserted before an opening tag of the pattern met while a <p> is open, and
\* at the end of input
RECURSIVE scan_paragraphs(_, _, _)
scan_paragraphs(html, i, p_opened) ==
  IF i > Len(html) THEN (IF p_opened THEN <<Close("p")>> ELSE <<>>)
  ELSE LET tk == html[i]
           trigger == tk.k = "open" /\ tk.n \in ScanTags
           opened == IF tk.k # "text" /\ tk.n = "p" THEN tk.k = "open"
                     ELSE IF trigger THEN FALSE ELSE p_opened IN
       (IF trigger /\ p_opened THEN <<Close("p")>> ELSE <<>>)
         \o <<tk>> \o scan_paragraphs(html, i + 1, opened)

\* MihanBlockchainScraper.fix_html_paragraphs: the blockquote pass over the
\* parsed markup, written back to a string, then the scan
mihan_fix_html_paragraphs(html_content, pops_all) ==
  scan_paragraphs(soup_str(process_blockquotes(BeautifulSoup(html_content, pops_all))), 1, FALSE)

\* the markup returned as it came
arzdigital_unscanned(html_content) == html_content

\* ArzDigitalScraper.fix_html_paragraphs: the scan alone
arzdigital_fix_html_paragraphs(html_content) == scan_paragraphs(html_content, 1, FALSE)

\* fix_html_paragraphs of the adapter of a source
fix_html_paragraphs(source, html_content, pops_all) ==
  IF source = "mihan_blockchain"
    THEN mihan_fix_html_paragraphs(html_content, pops_all)
    ELSE arzdigital_fix_html_paragraphs(html_content)

(* ------ MihanBlockchainScraper: inline images and segmentation --------- *)
IsTag(tk, k, n) == tk.k = k /\ tk.n = n

\* the index of the first k tag named n after token j, 0 if there is none or
\* if j is 0
FirstAfter(html, j, k, n) ==
  LET hits == {h \in (j + 1)..Len(html) : IsTag(html[h], k, n)} IN
  IF j = 0 \/ hits = {} THEN 0 ELSE CHOOSE h \in hits : \A g \in hits : h <= g

\* the index of the first img with a data-lazy-src after token j
FirstImageAfter(html, j) ==
  LET hits == {h \in (j + 1)..Len(html) : IsTag(html[h], "void", "img") /\ html[h].a # ""} IN
  IF j = 0 \/ hits = {} THEN 0 ELSE CHOOSE h \in hits : \A g \in hits : h <= g

\* the words of the runs of text of a markup, in order
RECURSIVE words_of(_)
words_of(html) ==
  IF html = <<>> THEN <<>>
  ELSE (IF html[1].k = "text" THEN html[1].n ELSE <<>>) \o words_of(Tail(html))

IsSpace(w) == w = " "

\* str.strip() of every string and the join of what is left: the words that
\* are not white space
strip_words(w) == SelectSeq(w, LAMBDA x : ~IsSpace(x))

\* a match of figure_regex that starts at token i: the div of class
\* wp-block-image, then the first <figure>, the first <a>, the first img with
\* a data-lazy-src, the first </a>, a figcaption if one follows at once, the
\* first </figure> and the first </div>
figure_match(html, i) ==
  LET figure == FirstAfter(html, i, "open", "figure")
      a == FirstAfter(html, figure, "open", "a")
      img == FirstImageAfter(html, a)
      a_end == FirstAfter(html, img, "close", "a")
      figcaption == IF a_end > 0 /\ a_end < Len(html) /\ IsTag(html[a_end + 1], "open", "figcaption")
                      THEN a_end + 1 ELSE 0
      figcaption_end == FirstAfter(html, figcaption, "close", "figcaption")
      figure_end == FirstAfter(html, IF figcaption_end > 0 THEN figcaption_end ELSE a_end,
                               "close", "figure")
      div_end == FirstAfter(html, figure_end, "close", "div") IN
  IF html[i] = OpenWith("div", "wp-block-image") /\ div_end > 0
    THEN [found |-> TRUE, end |-> div_end, url |-> html[img].a,
          caption |-> IF figcaption_end > 0
                        THEN strip_words(words_of(SubSeq(html, figcaption + 1, figcaption_end - 1)))
                        ELSE <<>>]
    ELSE [found |-> FALSE, end |-> 0, url |-> "", caption |-> <<>>]

\* the containers listed in is_in_excluded_container
ExcludedContainers ==
  {"jeg_share_bottom_container", "jeg_ad_jeg_article_jnews_content_bottom_ads",
   "jnews_prev_next_container", "jnews_author_box_container",
   "jnews_related_post_container",
   "jeg_postblock_22 jeg_postblock jeg_module_hook jeg_pagination_disable jeg_col_2o3 jnews_module_307974_0_67c3fad848cb2",
   "jnews_popup_post_container", "jnews_comment_container"}

\* whether old occurs in s at index j
OccursAt(s, old, j) ==
  j + Len(old) - 1 <= Len(s) /\ SubSeq(s, j, j + Len(old) - 1) = old

\* is_in_excluded_container: the first 100 characters of the match (the
\* opening tags of its div, figure and a) occur somewhere after the opening
\* tag of a div of a listed class
is_in_excluded_container(html, position) ==
  LET last == IF position + 2 <= Len(html) THEN position + 2 ELSE Len(html)
      snippet == SubSeq(html, position, last) IN
  \E c \in 1..Len(html) :
    /\ IsTag(html[c], "open", "div") /\ html[c].a \in ExcludedContainers
    /\ \E j \in (c + 1)..Len(html) : OccursAt(html, snippet, j)

\* str.replace(old, new): every occurrence of old, from the left
RECURSIVE str_replace(_, _, _)
str_replace(s, old, new) ==
  IF s = <<>> THEN <<>>
  ELSE IF OccursAt(s, old, 1)
    THEN new \o str_replace(SubSeq(s, Len(old) + 1, Len(s)), old, new)
    ELSE <<s[1]>> \o str_replace(Tail(s), old, new)

image_id(image_counter) == "img" \o ToString(image_counter)

PlaceholderText(id) == "**IMAGE_PLACEHOLDER_" \o id \o "**"

\* f"<figure>**IMAGE_PLACEHOLDER_{image_id}** </figure>"
Placeholder(id) == <<Open("figure"), Text(<<PlaceholderText(id), " ">>), Close("figure")>>

\* the loop of extract_and_replace_images over the matches in html
RECURSIVE replace_images(_, _, _, _, _, _)
replace_images(html, i, processed_html, images_url, processed_urls, image_counter) ==
  IF i > Len(html) THEN [html |-> processed_html, images |-> images_url]
  ELSE LET match == figure_match(html, i) IN
       IF ~match.found
         THEN replace_images(html, i + 1, processed_html, images_url,
                             processed_urls, image_counter)
       ELSE IF is_in_excluded_container(html, i) \/ match.url \in processed_urls
         THEN replace_images(html, match.end + 1, processed_html, images_url,
                             processed_urls, image_counter)
       ELSE replace_images(html, match.end + 1,
                           str_replace(processed_html, SubSeq(html, i, match.end),
                                       Placeholder(image_id(image_counter))),
                           Append(images_url, [id |-> image_id(image_counter),
                                               url |-> match.url,
                                               caption |-> match.caption,
                                               type |-> "figure"]),
                           processed_urls \cup {match.url}, image_counter + 1)

extract_and_replace_images(html) == replace_images(html, 1, html, <<>>, {}, 0)

\* general_unwanted_selectors of extract_content
UnwantedTags == {"script", "style", "noscript", "header", "footer", "aside"}

UnwantedClasses == {"jeg_post_source", "jeg_post_tags"}

IsUnwanted(tk) ==
  tk.k = "open" /\ (tk.n \in UnwantedTags \/ (tk.n = "div" /\ tk.a \in UnwantedClasses))

\* element.decompose() for every element of the tree that meets a selector
\* of general_unwanted_selectors: the element and what it holds go
RECURSIVE decompose_unwanted(_, _, _)
decompose_unwanted(soup, i, inside) ==
  IF i > Len(soup) THEN <<>>
  ELSE LET tk == soup[i]
           depth == IF inside > 0 \/ IsUnwanted(tk)
                      THEN (CASE tk.k = "open" -> inside + 1
                              [] tk.k = "close" -> inside - 1
                              [] OTHER -> inside)
                      ELSE 0 IN
       (IF inside > 0 \/ IsUnwanted(tk) THEN <<>> ELSE <<tk>>)
         \o decompose_unwanted(soup, i + 1, depth)

\* the index of the closing tag of the element of the tree opened at i
RECURSIVE element_end(_, _, _)
element_end(soup, j, open) ==
  LET depth == CASE soup[j].k = "open" -> open + 1
                 [] soup[j].k = "close" -> open - 1
                 [] OTHER -> open IN
  IF depth = 0 THEN j ELSE element_end(soup, j + 1, depth)

\* the largest n of an img{n} of the model: an article of MaxBlocks blocks
\* has at most MaxBlocks image constructs
MaxImageId == MaxBlocks

\* a word that matches \*\*IMAGE_PLACEHOLDER_img\d+\*\*
IsPlaceholder(w) == \E n \in 0..MaxImageId : w = PlaceholderText(image_id(n))

HasPlaceholder(w) == \E x \in 1..Len(w) : IsPlaceholder(w[x])

\* relevant_tags of extract_content
Headings == {"h1", "h2", "h3", "h4", "h5", "h6"}

RelevantTags == {"p", "figure", "blockquote", "li"} \cup Headings

\* str.lstrip() and str.rstrip() of a run of text
RECURSIVE lstrip(_)
lstrip(w) == IF w # <<>> /\ IsSpace(w[1]) THEN lstrip(Tail(w)) ELSE w

RECURSIVE rstrip(_)
rstrip(w) ==
  IF w # <<>> /\ IsSpace(w[Len(w)]) THEN rstrip(SubSeq(w, 1, Len(w) - 1)) ELSE w

\* the markup as it is, white space at its ends included
str_verbatim(html) == html

\* str.strip() of a markup: the white space at its two ends goes
str_strip(html) ==
  LET n == Len(html)
      lead == IF n > 0 /\ html[1].k = "text"
                THEN <<Text(lstrip(html[1].n))>> \o Tail(html) ELSE html
      last == IF n > 0 /\ lead[n].k = "text"
                THEN SubSeq(lead, 1, n - 1) \o <<Text(rstrip(lead[n].n))>> ELSE lead IN
  SelectSeq(last, LAMBDA tk : ~(tk.k = "text" /\ tk.n = <<>>))

\* element.decode_contents().strip(): the markup inside the element, without
\* the white space at its two ends
inner_html(soup, i, e) == str_strip(SubSeq(soup, i + 1, e - 1))

\* content_elements[key] = value
SetItem(content_elements, key, value) == (key :> value) @@ content_elements

\* the loop of extract_content over find_all(relevant_tags), in the order of
\* the document; in_blockquote counts the blockquotes open around token i
RECURSIVE content_walk(_, _, _, _, _)
content_walk(soup, i, in_blockquote, counters, content_elements) ==
  IF i > Len(soup) THEN content_elements
  ELSE
    LET tk == soup[i]
        tag_name == tk.n
        e == element_end(soup, i, 0)
        depth == IF tk.k # "text" /\ tk.n = "blockquote"
                   THEN (IF tk.k = "open" THEN in_blockquote + 1 ELSE in_blockquote - 1)
                   ELSE in_blockquote
        skip == content_walk(soup, i + 1, depth, counters, content_elements)
        store(name, key, value) ==
          content_walk(soup, i + 1, depth, [counters EXCEPT ![name] = @ + 1],
                       SetItem(content_elements, key, value))
        strings == {s \in (i + 1)..(e - 1) : soup[s].k = "text" /\ HasPlaceholder(soup[s].n)}
        img_placeholder == CHOOSE s \in strings : \A r \in strings : s <= r
        text == strip_words(words_of(SubSeq(soup, i + 1, e - 1)))
        cleaned == SelectSeq(text, LAMBDA w : ~IsPlaceholder(w)) IN
    IF ~(tk.k = "open" /\ tag_name \in RelevantTags) \/ in_blockquote > 0 THEN skip
    ELSE IF tag_name = "figure"
      THEN IF strings # {} /\ text = strip_words(soup[img_placeholder].n)
             THEN store("img", "img" \o ToString(counters["img"]),
                        strip_words(soup[img_placeholder].n))
             ELSE skip
    ELSE IF tag_name = "blockquote"
      THEN IF inner_html(soup, i, e) = <<>> THEN skip
           ELSE store("blockquote", "blockquote" \o ToString(counters["blockquote"]),
                      inner_html(soup, i, e))
    ELSE IF text = <<>> \/ cleaned = <<>> THEN skip
    ELSE store(tag_name, tag_name \o ToString(counters[tag_name]), cleaned)

\* MihanBlockchainScraper.extract_content; the markups of the model hold no
\* article.main-article, div.article-content, body or table of contents, so
\* the container is the whole tree
extract_content(html, pops_all) ==
  LET fixed == mihan_fix_html_paragraphs(html, pops_all)
      soup == BeautifulSoup(fixed, pops_all)
      content_container == decompose_unwanted(soup, 1, 0) IN
  content_walk(content_container, 1, 0,
               [c \in RelevantTags \cup {"img"} |-> 0], <<>>)

(* ------ SpecFix: fix_html_paragraphs over sequences of block tags ------- *)
\* every sequence of at most n of the tokens
Markups(tokens, n) == UNION {[1..m -> tokens] : m \in 0..n}

FixTags == {"p", "h2", "blockquote"}

FixTokens ==
  {Open(n) : n \in FixTags} \cup {Close(n) : n \in FixTags} \cup {Text(<<"A">>)}

\* an adapter normalises a markup; pops_all is the release of bs4 installed
FixArgs ==
  {[op |-> "fix", source |-> s, html |-> h, pops_all |-> b] :
     s \in Sources, h \in Markups(FixTokens, MaxHtmlLen), b \in BOOLEAN}

InitFix == InitFunction(FixArgs)

\* fix_html_paragraphs applied to the markup, and to its own output
ApplyFix ==
  /\ arg.op = "fix" /\ ret.op = "none"
  /\ LET once == fix_html_paragraphs(arg.source, arg.html, arg.pops_all) IN
     ret' = [op |-> "fix",
             once |-> once,
             twice |-> fix_html_paragraphs(arg.source, once, arg.pops_all)]
  /\ UNCHANGED <<task, storeVars, max_retries, scheduler_running, arg, ctlVars>>

SpecFix == InitFix /\ [][ApplyFix]_vars

\* the scan of ArzDigital alone: no parser takes part
InitScan == InitFunction({a \in FixArgs : a.source = "arzdigital" /\ ~a.pops_all})

SpecScan == InitScan /\ [][ApplyFix]_vars

(* ------------- SpecSort: the order a run walks its links in ------------ *)
SortArgs ==
  {[op |-> "sort", source |-> s, found |-> l] :
     s \in Sources, l \in ListingsWithDates(SortLinks)}

InitSort == InitFunction(SortArgs)

\* the links found on the listing page, as the loop of run receives them
ApplySort ==
  /\ arg.op = "sort" /\ ret.op = "none"
  /\ ret' = [op |-> "sort", links |-> article_links(arg.source, arg.found)]
  /\ UNCHANGED <<task, storeVars, max_retries, scheduler_running, arg, ctlVars>>

SpecSort == InitSort /\ [][ApplySort]_vars

(* ------ SpecContent: articles of MihanBlockchain, block by block ------- *)
ImageUrls == {"u1", "u2"}

Captions == {<<>>, <<"C">>}

\* the markup of an inline image of MihanBlockchain
ImageConstruct(url, caption) ==
  <<OpenWith("div", "wp-block-image"), Open("figure"), Open("a"), Void("img", url), Close("a")>>
    \o (IF caption = <<>> THEN <<>>
        ELSE <<Open("figcaption"), Text(caption), Close("figcaption")>>)
    \o <<Close("figure"), Close("div")>>

\* <p>Quote <a href="#">link</a></p>
QuoteParagraph ==
  <<Open("p"), Text(<<"Quote", " ">>), Open("a"), Text(<<"link">>), Close("a"), Close("p")>>

\* what a block holds: a text, a heading, a paragraph with a link, or an
\* image construct
Items ==
  {<<Text(<<"A">>)>>, <<Open("h2"), Text(<<"B">>), Close("h2")>>, QuoteParagraph}
    \cup {ImageConstruct(u, c) : u \in ImageUrls, c \in Captions}

\* where a block sits: at top level, in a paragraph (closed or left open), in
\* a blockquote, in a section that extract_content removes, or in a container
\* that is_in_excluded_container lists
Wraps == {"none", "p", "p_open", "blockquote", "aside", "excluded"}

Block(wrap, item) ==
  CASE wrap = "none" -> item
    [] wrap = "p" -> <<Open("p")>> \o item \o <<Close("p")>>
    [] wrap = "p_open" -> <<Open("p")>> \o item
    [] wrap = "blockquote" -> <<Open("blockquote")>> \o item \o <<Close("blockquote")>>
    [] wrap = "aside" -> <<Open("aside")>> \o item \o <<Close("aside")>>
    [] wrap = "excluded" -> <<OpenWith("div", "jnews_related_post_container")>> \o item \o <<Close("div")>>

Blocks == [wrap : Wraps, item : Items]

RECURSIVE Render(_)
Render(blocks) ==
  IF blocks = <<>> THEN <<>>
  ELSE Block(blocks[1].wrap, blocks[1].item) \o Render(Tail(blocks))

\* article.data of process_article_content for the articles of at most
\* MaxBlocks of the blocks, and the release of bs4 installed
ArticleArgs(blocks) ==
  {[op |-> "content", blocks |-> b, html |-> Render(b), pops_all |-> p] :
     b \in UNION {[1..m -> blocks] : m \in 0..MaxBlocks}, p \in BOOLEAN}

ContentArgs == ArticleArgs(Blocks)

InitContent == InitFunction(ContentArgs)

\* process_article_content, lines 196 and 212: the images are replaced, then
\* the markup with the placeholders is segmented; fixed is what
\* extract_content segments (its line 344)
ApplyContent ==
  /\ arg.op = "content" /\ ret.op = "none"
  /\ LET replaced == extract_and_replace_images(arg.html) IN
     ret' = [op |-> "content",
             html_with_placeholders |-> replaced.html,
             images |-> replaced.images,
             fixed |-> mihan_fix_html_paragraphs(replaced.html, arg.pops_all),
             content |-> extract_content(replaced.html, arg.pops_all)]
  /\ UNCHANGED <<task, storeVars, max_retries, scheduler_running, arg, ctlVars>>

SpecContent == InitContent /\ [][ApplyContent]_vars

(* ------ SpecQuote: articles of top-level blocks and blockquotes -------- *)
InitQuote == InitFunction(ArticleArgs([wrap : {"none", "blockquote"}, item : Items]))

SpecQuote == InitQuote /\ [][ApplyContent]_vars

(* ------ SpecKeys: articles of texts, list items, headings, images ------ *)
KeyItems ==
  {<<Text(<<"A">>)>>, <<Text(<<"C">>)>>, <<Text(<<" ">>)>>,
   <<Open("li"), Text(<<"A">>), Close("li")>>,
   <<Open("h2"), Text(<<"B">>), Close("h2")>>,
   ImageConstruct("u1", <<>>)}

InitKeys == InitFunction(ArticleArgs([wrap : {"none", "p", "blockquote"}, item : KeyItems]))

SpecKeys == InitKeys /\ [][ApplyContent]_vars

(* ------ SpecStop: long discovery lists, every page and POST succeeds --- *)
InitStop == InitCli(StopLinks)

NextStop ==
  \E t \in Tasks :
    \/ Discover(t, DistinctListings(StopLinks))
    \/ LoopHead(t)
    \/ CheckExists(t, CheckResponses)
    \/ GetArticleContent(t, {"N/A"}, {0})
    \/ ProcessArticleContent(t, {"keys"}, {<<>>}, {"ok"})
    \/ Validate(t, {"ok"})
    \/ PostLoop(t)
    \/ PostAttempt(t, {"2xx"})
    \/ RunScraperReturn(t)

SpecStop == InitStop /\ [][NextStop]_vars

(* ------ SpecPost: post_news_data for every setting of max_retries ------ *)
\* what BaseScraper.run can return: valid articles of distinct URLs
CollectedLists(n) ==
  {[k \in 1..m |-> [NoArticle EXCEPT !.url = k, !.title = "N/A", !.content = 1]]
     : m \in 0..n}

InitPost ==
  /\ scraping_progress = [s \in Sources |-> IdleRunState]
  /\ scraping_in_progress = FALSE
  /\ scraping_logs = {}
  /\ last_scrape_results = NoResults
  /\ response = NoResponse
  /\ scheduler_running = TRUE
  /\ arg = NotApplied
  /\ ret = NotApplied
  /\ max_retries \in 0..MaxRetries
  /\ \E c \in CollectedLists(PostLinks) :
       task = [t \in Tasks |->
                 IF t = 1
                   THEN [CliTask("mihan_blockchain") EXCEPT
                           !.pc = "post_loop", !.j = 1, !.collected = c,
                           !.links = [k \in 1..Len(c) |-> LinkRecord(c[k].url, 1)],
                           !.i = Len(c) + 1,
                           !.processed_urls = {c[k].url : k \in 1..Len(c)}]
                   ELSE IdleTask]
  /\ sink = {}
  /\ posted = [u \in Urls |-> 0]
  /\ submitted = {}
  /\ misanswered = {}
  /\ jobs = NoJobs
  /\ triggers = 0

NextPost ==
  \E t \in Tasks : PostLoop(t) \/ PostAttempt(t, PostResponses) \/ RunScraperReturn(t)

SpecPost == InitPost /\ [][NextPost]_vars

(* ------ SpecImages: pages with images, uploads that fail --------------- *)
InitImages == InitCli(ImageLinks)

NextImages ==
  \E t \in Tasks :
    \/ Discover(t, DistinctListings(ImageLinks))
    \/ LoopHead(t)
    \/ CheckExists(t, {"200"})
    \/ GetArticleContent(t, {"N/A"}, {0, 1})
    \/ ProcessArticleContent(t, {"keys"}, ImageLists, UploadResponses)
    \/ Validate(t, UploadResponses)
    \/ PostLoop(t)
    \/ PostAttempt(t, PostResponses)
    \/ RunScraperReturn(t)

SpecImages == InitImages /\ [][NextImages]_vars

(* ------ SpecRehost: pages with images, with or without title and content *)
InitRehost == InitCli(ImageLinks)

NextRehost ==
  \E t \in Tasks :
    \/ Discover(t, DistinctListings(ImageLinks))
    \/ LoopHead(t)
    \/ CheckExists(t, {"200"})
    \/ GetArticleContent(t, Pages, {0, 1})
    \/ ProcessArticleContent(t, Processed, ImageLists, UploadResponses)
    \/ Validate(t, UploadResponses)
    \/ PostLoop(t)
    \/ PostAttempt(t, PostResponses)
    \/ RunScraperReturn(t)

SpecRehost == InitRehost /\ [][NextRehost]_vars

(* ======================= the server: trigger paths ===================== *)
RunAllKinds == {"sched", "api_all"}
TriggerKinds == {"trig_one", "trig_all"}

Free(t) == task[t].pc \in {"idle", "done"}

\* the lowest task slot that executes nothing
FreeSlot(t) == Free(t) /\ \A t2 \in 1..(t - 1) : ~Free(t2)

\* an event loop that a running handler never blocks
LoopNeverBusy == FALSE

\* trigger_scraping is an `async def` that calls run_scraper without awaiting:
\* while it executes, the event loop serves no other request
LoopBusy == \E t \in Tasks : task[t].kind \in TriggerKinds /\ ~Free(t)

\* the number of the run that the next trigger starts
RunId == MaxTriggers - triggers + 1

NewTask(kind) == [IdleTask EXCEPT !.kind = kind, !.pc = "start", !.run = RunId]

\* a server thread whose function has returned (or raised): its locals are gone
Gone(r, raised) == [IdleTask EXCEPT !.kind = r.kind, !.pc = "done", !.raised = raised]

AllAbsent == [s \in Sources |-> NoRunState]

\* _scraping_progress[source].update({"status": "completed", ...})
Completed(rs, n) ==
  [rs EXCEPT !.status = "completed", !.progress = 100, !.processed = n, !.ended = TRUE]

(* ------------------- ScraperScheduler (scheduler.py) ------------------ *)
\* ScraperScheduler.remove_job: True and the job removed, or False when
\* APScheduler raises JobLookupError
remove_job_found(job_id, reg) ==
  [found |-> TRUE, jobs |-> [reg EXCEPT ![job_id] = "absent"]]

remove_job(job_id, reg) ==
  IF reg[job_id] # "absent"
    THEN [found |-> TRUE, jobs |-> [reg EXCEPT ![job_id] = "absent"]]
    ELSE [found |-> FALSE, jobs |-> reg]

\* ScraperScheduler.add_interval_job: next_run_time = now with start_now,
\* None (the job is added paused) without
\* None (the job is added paused) without; add_job raises ConflictingIdError
\* for an id that the job store holds
add_interval_job(job_id, start_now, reg) ==
  IF reg[job_id] # "absent"
    THEN [raised |-> TRUE, jobs |-> reg]
    ELSE [raised |-> FALSE,
          jobs |-> [reg EXCEPT ![job_id] = IF start_now THEN "active" ELSE "paused"]]

schedule_scrapers_no_remove(start_now, reg) ==
  LET added == add_interval_job("all_scrapers", start_now, reg) IN
  [raised |-> added.raised, removed |-> FALSE, jobs |-> added.jobs]

\* ScraperController.schedule_scrapers: remove_job, then add_interval_job
schedule_scrapers(start_now, reg) ==
  LET out == remove_job("all_scrapers", reg)
      added == add_interval_job("all_scrapers", start_now, out.jobs) IN
  [raised |-> added.raised, removed |-> out.found, jobs |-> added.jobs]

CanFireStopped(running, state) == state = "active"

\* the scheduler's thread runs a job that is due: the scheduler is running and
\* the job has a next run time
CanFire(running, state) == running /\ state = "active"

(* --------------------- the endpoints and the threads ------------------ *)
\* POST /api/v1/scrape: background_tasks.add_task(run_all_scrapers)
scrape_all(t) ==
  /\ ~LoopBusy
  /\ triggers > 0
  /\ FreeSlot(t)
  /\ triggers' = triggers - 1
  /\ Upd(t, NewTask("api_all"))
  /\ UNCHANGED <<storeVars, fixedVars, scraping_progress, scraping_logs,
                 scraping_in_progress, last_scrape_results, jobs, response>>

\* POST /api/v1/scrape/{source_name}: background_tasks.add_task(run_scraper,
\* source_name) for a known source (an unknown one is answered 404)
scrape_source(t, s) ==
  /\ ~LoopBusy
  /\ triggers > 0
  /\ FreeSlot(t)
  /\ s \in Sources
  /\ triggers' = triggers - 1
  /\ Upd(t, EnterRunScraper(NewTask("api_one"), s))
  /\ UNCHANGED <<storeVars, fixedVars, scraping_progress, scraping_logs,
                 scraping_in_progress, last_scrape_results, jobs, response>>

\* POST /api/v1/scheduler/start: schedule_scrapers(start_now=True) removes
\* the job and registers it again with next_run_time = now
start_scheduler ==
  /\ ~LoopBusy
  /\ LET out == schedule_scrapers(TRUE, jobs) IN
       /\ jobs' = out.jobs
       /\ response' = [op |-> "start_scheduler", arg |-> "all_scrapers",
                       status |-> IF out.raised THEN "500" ELSE "200",
                       removed |-> out.removed]
  /\ UNCHANGED <<task, storeVars, fixedVars, scraping_progress, scraping_logs,
                 scraping_in_progress, last_scrape_results, triggers>>

\* POST /api/v1/scheduler/stop/{job_id}: scheduler.remove_job(job_id), and
\* 404 when it returns False
stop_scheduler_job(job_id) ==
  /\ ~LoopBusy
  /\ LET out == remove_job(job_id, jobs) IN
       /\ jobs' = out.jobs
       /\ response' = [op |-> "stop_scheduler_job", arg |-> job_id,
                       status |-> IF out.found THEN "200" ELSE "404",
                       removed |-> out.found]
  /\ UNCHANGED <<task, storeVars, fixedVars, scraping_progress, scraping_logs,
                 scraping_in_progress, last_scrape_results, triggers>>

\* the interval trigger of job all_scrapers fires: the scheduler submits
\* run_all_scrapers to its thread pool unless an instance of the job is
\* still running (max_instances is left at 1)
SchedulerFire(t) ==
  /\ CanFire(scheduler_running, jobs["all_scrapers"])
  /\ triggers > 0
  /\ FreeSlot(t)
  /\ \A t2 \in Tasks : task[t2].kind = "sched" => Free(t2)
  /\ triggers' = triggers - 1
  /\ Upd(t, NewTask("sched"))
  /\ UNCHANGED <<storeVars, fixedVars, scraping_progress, scraping_logs,
                 scraping_in_progress, last_scrape_results, jobs, response>>

\* shutdown_event: scheduler.shutdown(), that is BackgroundScheduler.shutdown
\* with wait = True: the scheduler stops, the runs that execute go on
shutdown_event ==
  /\ scheduler_running
  /\ scheduler_running' = FALSE
  /\ UNCHANGED <<task, storeVars, max_retries, arg, ret, ctlVars>>

\* an exception leaves scraper.run (the adapter's discovery raises): the
\* except clause of run_scraper, lines 151-153, returns []
RunRaises(t) ==
  /\ task[t].pc = "discover"
  /\ Upd(t, [task[t] EXCEPT !.pc = "ret", !.results = 0, !.run_error = TRUE])
  /\ UNCHANGED <<storeVars, fixedVars, ctlVars>>

\* run_all_scrapers, lines 162-185: every source's RunState is replaced by a
\* running one, the logs are reset, then run_scraper is called for the first
\* source
RunAllStart(t) ==
  LET r == task[t] IN
  /\ r.kind \in RunAllKinds
  /\ r.pc = "start"
  /\ scraping_progress' = [s \in Sources |-> FreshRunState]
  /\ scraping_logs' = {r.run}
  /\ Upd(t, EnterRunScraper([r EXCEPT !.todo = Tail(SourceOrder), !.total = 0],
                            Head(SourceOrder)))
  /\ UNCHANGED <<storeVars, fixedVars, runFrame>>

\* run_all_scrapers, lines 186-226: run_scraper has returned; the source's
\* RunState is updated to completed and the next source is run, or the batch
\* ends with its summary. The update raises KeyError when the entry is gone,
\* and so does the update in the except clause: the exception leaves
\* run_all_scrapers.
RunAllReturn(t) ==
  LET r == task[t]
      total == r.total + r.results IN
  /\ r.kind \in RunAllKinds
  /\ r.pc = "ret"
  /\ scraping_logs' = Log(r)
  /\ IF scraping_progress[r.src].status = "absent"
       THEN /\ Upd(t, Gone(r, TRUE))
            /\ UNCHANGED <<scraping_progress, last_scrape_results>>
       ELSE /\ scraping_progress' =
                 [scraping_progress EXCEPT ![r.src] = Completed(@, r.results)]
            /\ IF r.todo = <<>>
                 THEN /\ Upd(t, Gone(r, FALSE))
                      /\ last_scrape_results' =
                           [run |-> r.run, has_total |-> TRUE, total |-> total]
                 ELSE /\ Upd(t, EnterRunScraper([r EXCEPT !.todo = Tail(r.todo),
                                                          !.total = total],
                                                Head(r.todo)))
                      /\ UNCHANGED last_scrape_results
  /\ UNCHANGED <<storeVars, fixedVars, scraping_in_progress, jobs, response, triggers>>

\* GET /api/v1/monitoring/progress, lines 75-128: the overall status
get_scraping_progress ==
  LET progress_data == {s \in Sources : HasRunState(s)}
      all_completed == \A s \in progress_data : scraping_progress[s].status = "completed"
      any_error == \E s \in progress_data : scraping_progress[s].status = "error" IN
  IF progress_data = {}
    THEN (IF scraping_in_progress THEN "pending" ELSE "completed")
    ELSE IF all_completed THEN "completed"
    ELSE IF any_error THEN "error"
    ELSE "running"

TriggerArgs == Sources \cup {"all", "unknown"}

\* POST /api/v1/monitoring/trigger, lines 136-172 and 222-238: up to the
\* first call of run_scraper. An unknown source raises the 404 inside the
\* try: the except clause clears the flag and answers 500.
trigger_scraping(t, source) ==
  /\ ~LoopBusy
  /\ triggers > 0
  /\ FreeSlot(t)
  /\ triggers' = triggers - 1
  /\ IF scraping_in_progress
       THEN /\ response' = [op |-> "trigger_scraping", arg |-> source,
                            status |-> "already_running", removed |-> FALSE]
            /\ UNCHANGED <<task, scraping_progress, scraping_logs, scraping_in_progress>>
       ELSE /\ scraping_logs' = {RunId}
            /\ IF source = "unknown"
                 THEN /\ scraping_progress' = AllAbsent
                      /\ scraping_in_progress' = FALSE
                      /\ response' = [op |-> "trigger_scraping", arg |-> source,
                                      status |-> "500", removed |-> FALSE]
                      /\ UNCHANGED task
                 ELSE LET first == IF source = "all" THEN Head(SourceOrder) ELSE source
                          rest == IF source = "all" THEN Tail(SourceOrder) ELSE <<>>
                          kind == IF source = "all" THEN "trig_all" ELSE "trig_one" IN
                      /\ scraping_progress' = [AllAbsent EXCEPT ![first] = FreshRunState]
                      /\ scraping_in_progress' = TRUE
                      /\ Upd(t, EnterRunScraper([NewTask(kind) EXCEPT !.todo = rest],
                                                first))
                      /\ UNCHANGED response
  /\ UNCHANGED <<storeVars, fixedVars, last_scrape_results, jobs>>

\* trigger_scraping, lines 173-307: run_scraper has returned; the source's
\* RunState is updated to completed, then the next source is started, or
\* the summary is stored, the flag cleared and the request answered
TriggerReturn(t) ==
  LET r == task[t]
      total == r.total + r.results IN
  /\ r.kind \in TriggerKinds
  /\ r.pc = "ret"
  /\ scraping_logs' = Log(r)
  /\ IF scraping_progress[r.src].status = "absent"
       THEN /\ Upd(t, Gone(r, TRUE))
            /\ scraping_in_progress' = FALSE
            /\ response' = [op |-> "trigger_scraping", arg |-> r.kind, status |-> "500",
                            removed |-> FALSE]
            /\ UNCHANGED <<scraping_progress, last_scrape_results>>
       ELSE IF r.todo = <<>>
         THEN /\ scraping_progress' =
                   [scraping_progress EXCEPT ![r.src] = Completed(@, r.results)]
              /\ scraping_in_progress' = FALSE
              /\ last_scrape_results' =
                   [run |-> r.run, has_total |-> FALSE, total |-> total]
              /\ response' = [op |-> "trigger_scraping", arg |-> r.kind,
                              status |-> "success", removed |-> FALSE]
              /\ Upd(t, Gone(r, FALSE))
         ELSE /\ scraping_progress' =
                   [scraping_progress EXCEPT ![r.src] = Completed(@, r.results),
                                             ![Head(r.todo)] = FreshRunState]
              /\ Upd(t, EnterRunScraper([r EXCEPT !.todo = Tail(r.todo),
                                                  !.total = total], Head(r.todo)))
              /\ UNCHANGED <<scraping_in_progress, last_scrape_results, response>>
  /\ UNCHANGED <<storeVars, fixedVars, jobs, triggers>>

\* one step of a thread inside run_scraper when every existence check, page
\* and POST succeeds
LeanStep(t) ==
  \/ Discover(t, DistinctListings(ServerLinks))
  \/ LoopHead(t)
  \/ CheckExists(t, {"200"})
  \/ GetArticleContent(t, {"N/A"}, {0})
  \/ ProcessArticleContent(t, {"keys"}, {<<>>}, {"ok"})
  \/ Validate(t, {"ok"})
  \/ PostLoop(t)
  \/ PostAttempt(t, {"2xx"})

\* The server after startup_event; in Spec every existence check, page and
\* POST succeeds, so that a run differs from another only by its trigger path,
\* its discovery list and the interleaving. The job is registered by
\* schedule_scrapers() when auto-start is set, with start_now = False and so
\* next_run_time = None (paused)
InitServer ==
  /\ InitController
  /\ task = [t \in Tasks |-> IdleTask]
  /\ sink \in SUBSET {SiteUrl(s, k) : s \in Sources, k \in 1..ServerLinks}
  /\ posted = [u \in Urls |-> 0]
  /\ submitted = {}
  /\ misanswered = {}
  /\ triggers = MaxTriggers

Init ==
  /\ InitServer
  /\ jobs \in {NoJobs, schedule_scrapers(FALSE, NoJobs).jobs}

Next ==
  \/ start_scheduler
  \/ stop_scheduler_job("all_scrapers")
  \/ \E t \in Tasks :
       \/ scrape_all(t)
       \/ \E s \in Sources : scrape_source(t, s)
       \/ \E a \in TriggerArgs : trigger_scraping(t, a)
       \/ SchedulerFire(t)
       \/ RunAllStart(t)
       \/ RunAllReturn(t)
       \/ TriggerReturn(t)
       \/ RunScraperReturn(t)
       \/ RunRaises(t)
       \/ LeanStep(t)

Spec == Init /\ [][Next]_vars

(* ------ SpecTrigger: monitoring triggers, one arriving during a run ---- *)
Waiting(t) == task[t].pc = "wait"

\* a POST /api/v1/monitoring/trigger arrives while trigger_scraping executes:
\* uvicorn's event loop is inside the handler (run.py:40-46, one worker), so
\* the request waits
trigger_waits(t, source) ==
  /\ LoopBusy
  /\ FreeSlot(t)
  /\ triggers > Cardinality({t2 \in Tasks : Waiting(t2)})
  /\ Upd(t, [IdleTask EXCEPT !.kind = "request", !.pc = "wait", !.src = source])
  /\ UNCHANGED <<storeVars, fixedVars, ctlVars>>

\* the handler that blocked the loop has returned and the waiting request is
\* served: trigger_scraping, lines 136-172 and 222-238
trigger_resumes(t) ==
  LET source == task[t].src IN
  /\ Waiting(t)
  /\ ~LoopBusy
  /\ triggers' = triggers - 1
  /\ IF scraping_in_progress
       THEN /\ response' = [op |-> "trigger_scraping", arg |-> source,
                            status |-> "already_running", removed |-> FALSE]
            /\ Upd(t, IdleTask)
            /\ UNCHANGED <<scraping_progress, scraping_logs, scraping_in_progress>>
       ELSE /\ scraping_logs' = {RunId}
            /\ IF source = "unknown"
                 THEN /\ scraping_progress' = AllAbsent
                      /\ scraping_in_progress' = FALSE
                      /\ response' = [op |-> "trigger_scraping", arg |-> source,
                                      status |-> "500", removed |-> FALSE]
                      /\ Upd(t, IdleTask)
                 ELSE LET first == IF source = "all" THEN Head(SourceOrder) ELSE source
                          rest == IF source = "all" THEN Tail(SourceOrder) ELSE <<>>
                          kind == IF source = "all" THEN "trig_all" ELSE "trig_one" IN
                      /\ scraping_progress' = [AllAbsent EXCEPT ![first] = FreshRunState]
                      /\ scraping_in_progress' = TRUE
                      /\ Upd(t, EnterRunScraper([NewTask(kind) EXCEPT !.todo = rest],
                                                first))
                      /\ UNCHANGED response
  /\ UNCHANGED <<storeVars, fixedVars, last_scrape_results, jobs>>

\* the service after startup, no job registered, the article store empty
InitTrigger ==
  /\ InitServer
  /\ sink = {}
  /\ jobs = NoJobs

NextTrigger ==
  \E t \in Tasks :
    \/ \E a \in TriggerArgs : trigger_scraping(t, a) \/ trigger_waits(t, a)
    \/ trigger_resumes(t)
    \/ TriggerReturn(t)
    \/ RunRaises(t)
    \/ LeanStep(t)

SpecTrigger == InitTrigger /\ [][NextTrigger]_vars

(* ------ SpecScheduler: the scheduler's endpoints and its job ----------- *)
InitScheduler ==
  /\ InitServer
  /\ jobs = schedule_scrapers(FALSE, NoJobs).jobs

NextScheduler ==
  \/ start_scheduler
  \/ shutdown_event
  \/ \E id \in JobIds : stop_scheduler_job(id)
  \/ \E t \in Tasks :
       \/ SchedulerFire(t)
       \/ RunAllStart(t)
       \/ RunAllReturn(t)
       \/ LeanStep(t)

SpecScheduler == InitScheduler /\ [][NextScheduler]_vars

\* the scheduler's thread runs every job that stays due, and a thread of its
\* pool that can take a step takes it; the endpoints need not be called
SchedulerThreads ==
  /\ WF_vars(\E t \in Tasks : SchedulerFire(t))
  /\ \A t \in Tasks : WF_vars(RunAllStart(t) \/ RunAllReturn(t) \/ LeanStep(t))

SpecSchedulerLive == SpecScheduler /\ SchedulerThreads

(* ============================ properties ============================== *)
UrlsOf(articles) == {articles[k].url : k \in 1..Len(articles)}
LinkUrls(links) == {links[k].link : k \in 1..Len(links)}
AnsweredTrue(r) == {r.answers[k].url : k \in {h \in 1..Len(r.answers) : r.answers[h].ans}}
FailedUrls(r) == {f.url : f \in r.failed}
Injective(s) == \A h, k \in 1..Len(s) : h # k => s[h] # s[k]
NothingPostedYet == \A u \in Urls : posted[u] = 0
Ended(r) == r.pc \in {"ret", "done"}

C4_StopOnlyAfterFiveInARow ==
  \A t \in Tasks :
    LET r == task[t]
        n == Len(r.answers) IN
    r.stopped => /\ n >= DuplicateThreshold
                 /\ \A k \in (n - DuplicateThreshold + 1)..n : r.answers[k].ans

\* C5: a call of post_news_data whose every POST fails makes exactly
\* max_retries POSTs and then raises; a call returns only on a 2xx answer and
\* makes no POST after it.
C5_RetriesExactlyMaxRetries ==
  \A t \in Tasks :
    LET r == task[t]
        c == r.call IN
    /\ \A k \in 1..Len(r.outcomes) :
         r.outcomes[k] = "2xx" => k = Len(r.outcomes) /\ r.pc # "post"
    /\ c.url # 0 =>
         /\ ~c.ok => /\ Len(c.outcomes) = max_retries
                     /\ \A k \in 1..Len(c.outcomes) : c.outcomes[k] = "error"
                     /\ Failure(c.url, "post") \in r.failed
                     /\ c.url \notin UrlsOf(r.successful)
         /\ c.ok => /\ Len(c.outcomes) \in 1..max_retries
                    /\ c.outcomes[Len(c.outcomes)] = "2xx"
                    /\ \A k \in 1..(Len(c.outcomes) - 1) : c.outcomes[k] = "error"

\* a call that failed after at least two POSTs
C5_Witness ==
  \E t \in Tasks :
    LET c == task[t].call IN
    /\ c.url # 0
    /\ ~c.ok
    /\ max_retries >= 2
    /\ Len(c.outcomes) = max_retries

\* C6: the waits of one call are 1, 2, 4, ... seconds (each the double of the
\* one before, so strictly increasing), one wait between two consecutive
\* POSTs and none after the last one.
C6_BackoffDoubles ==
  \A t \in Tasks :
    LET r == task[t]
        c == r.call IN
    /\ \A k \in 1..Len(r.waits) :
         r.waits[k] = IF k = 1 THEN 1 ELSE 2 * r.waits[k - 1]
    /\ r.pc = "post" => Len(r.waits) = Len(r.outcomes)
    /\ c.url # 0 =>
         /\ Len(c.waits) = IF c.outcomes = <<>> THEN 0 ELSE Len(c.outcomes) - 1
         /\ \A k \in 1..Len(c.waits) :
              c.waits[k] = IF k = 1 THEN 1 ELSE 2 * c.waits[k - 1]

\* a call that raised after four POSTs and the waits 1, 2, 4
C6_Witness ==
  \E t \in Tasks :
    LET c == task[t].call IN
    /\ c.url # 0
    /\ ~c.ok
    /\ c.waits = <<1, 2, 4>>
    /\ Len(c.outcomes) = 4

C8_CheckFailureFailsOpen ==
  \A t \in Tasks :
    LET r == task[t] IN
    /\ \A k \in 1..Len(r.answers) :
         ~r.answers[k].ok =>
           /\ ~r.answers[k].ans
           /\ \/ r.answers[k].url \in Range(r.fetched)
              \/ r.pc = "fetch" /\ r.links[r.i].link = r.answers[k].url
    /\ r.existing = Cardinality({k \in 1..Len(r.answers) :
                                   r.answers[k].ok /\ r.answers[k].ans})

\* a finished run in which the check of an item failed, the Sink held the
\* item, and the item was fetched and posted
C8_Witness ==
  \E t \in Tasks :
    LET r == task[t] IN
    /\ r.pc = "done"
    /\ \E k \in 1..Len(r.answers) :
         /\ ~r.answers[k].ok
         /\ r.answers[k].url \in Range(r.fetched)
         /\ r.answers[k].url \in UrlsOf(r.successful)
         /\ r.existing = 0

\* C9: within one run no URL is existence-checked, fetched, collected or
\* posted more than once, however often it occurs in the discovery list.
C9_UrlHandledOncePerRun ==
  \A t \in Tasks :
    LET r == task[t] IN
    /\ Injective([k \in 1..Len(r.answers) |-> r.answers[k].url])
    /\ Injective(r.fetched)
    /\ Injective([k \in 1..Len(r.collected) |-> r.collected[k].url])
    /\ Injective([k \in 1..Len(r.successful) |-> r.successful[k].url])

\* a finished run whose discovery list names a URL twice and that posted it
C9_Witness ==
  \E t \in Tasks :
    LET r == task[t] IN
    /\ r.pc = "done"
    /\ \E h, k \in 1..Len(r.links) :
         /\ h # k
         /\ r.links[h].link = r.links[k].link
         /\ r.links[h].link \in UrlsOf(r.successful)

\* C10: no payload sent to the Sink has an empty title or an empty content map.
C10_InvalidNeverPosted ==
  \A a \in submitted : a.title # "" /\ a.content # 0

\* a finished run that skipped one item for its empty title and another for
\* its empty content
C10_Witness ==
  \E t \in Tasks :
    LET r == task[t] IN
    /\ r.pc = "done"
    /\ \E f, g \in r.failed : f.stage = "title" /\ g.stage = "content"

(* ------------------------------ Spec ---------------------------------- *)
\* a task is inside BaseScraper.run or the post loop of run_scraper
InRun(r) ==
  r.pc \in {"loop", "check", "fetch", "process", "validate", "post_loop", "post"}

\* C1 as stated: no two runs of one source are in progress at the same time,
\* whichever paths started them.
C1_NoOverlappingRuns ==
  \A t1, t2 \in Tasks :
    (t1 # t2 /\ InRun(task[t1]) /\ InRun(task[t2])) => task[t1].src # task[t2].src

\* C2 as stated: a URL whose existence checks the Sink always answered (true
\* once a post of it had succeeded) is successfully posted at most once.
C2_PostedAtMostOnce ==
  \A u \in Urls : u \notin misanswered => posted[u] <= 1

(* ---------------------------- SpecImages ------------------------------- *)
\* C11 as stated (its second half): in a posted article the thumbnail is null
\* or the URL the image store gave for it, and every image of the list is one
\* the image store took: an image whose upload failed is nulled or dropped.
C11_FailedImagesNulledOrDropped ==
  \A a \in submitted :
    /\ a.thumb = 0 \/ IsHosted(a.thumb)
    /\ \A k \in 1..Len(a.images) : IsHosted(a.images[k])

\* C25 as stated: when a run starts on an item, it has applied the inter-item
\* delay once for every item that it processed before.
C25_DelayBetweenItems ==
  \A t \in Tasks :
    task[t].pc = "check" => task[t].delays >= Len(task[t].collected)

(* ------------------------------ SpecAge ------------------------------- *)
\* C26 as stated: an item dated exactly max_age_days days before now passes
\* the filter of get_article_links and is_recent, and an item dated one day
\* earlier passes neither.
C26_AgeBoundaryInclusive ==
  ret.op = "age" =>
    /\ arg.now - arg.dt = arg.days * UnitsPerDay => ret.kept /\ ret.recent
    /\ arg.now - arg.dt = (arg.days + 1) * UnitsPerDay => ~ret.kept /\ ~ret.recent

(* ------------------------------ SpecFix ------------------------------- *)
\* C27 as stated: fix_html_paragraphs applied to its own output returns that
\* output unchanged, for every sequence of block tags and text.
C27_FixIdempotent ==
  ret.op = "fix" => ret.twice = ret.once

(* ------------------------------ SpecScan ------------------------------ *)
\* out is html with </p> tokens inserted and nothing else changed
RECURSIVE OnlyParagraphEndsInserted(_, _)
OnlyParagraphEndsInserted(html, out) ==
  IF out = <<>> THEN html = <<>>
  ELSE \/ html # <<>> /\ Head(html) = Head(out)
          /\ OnlyParagraphEndsInserted(Tail(html), Tail(out))
       \/ Head(out) = Close("p") /\ OnlyParagraphEndsInserted(html, Tail(out))

\* a paragraph is open in front of token j: the last <p> or </p> before it is a <p>
ParagraphOpenAt(html, j) ==
  \E h \in 1..(j - 1) :
    /\ html[h] = Open("p")
    /\ \A g \in (h + 1)..(j - 1) : html[g] # Close("p")

\* no opening tag of the pattern stands in an open paragraph, and no
\* paragraph is open at the end
IsBalanced(html) ==
  /\ \A j \in 1..Len(html) :
       html[j].k = "open" /\ html[j].n \in ScanTags => ~ParagraphOpenAt(html, j)
  /\ ~ParagraphOpenAt(html, Len(html) + 1)

\* C36: the scan of ArzDigital returns its input with only </p> tokens
\* inserted; the output is balanced (no opening p, heading, figure or
\* blockquote in an open paragraph, every paragraph closed at the end at the
\* latest), and a balanced input comes back unchanged.
C36_ScanBalances ==
  ret.op = "fix" /\ arg.source = "arzdigital" =>
    /\ OnlyParagraphEndsInserted(arg.html, ret.once)
    /\ IsBalanced(ret.once)
    /\ IsBalanced(arg.html) => ret.once = arg.html

\* a paragraph left open before a heading, and one left open at the end
C36_Witness ==
  /\ ret.op = "fix" /\ arg.source = "arzdigital"
  /\ arg.html = <<Open("p"), Text(<<"A">>), Open("h2"), Open("p")>>
  /\ ret.once = <<Open("p"), Text(<<"A">>), Close("p"), Open("h2"), Open("p"), Close("p")>>

(* ---------------------------- SpecContent ----------------------------- *)
\* the img{n} keys of a content
ImgKeys(content) ==
  {key \in DOMAIN content : \E n \in 0..MaxImageId : key = image_id(n)}

\* the ids of a list of images
ImageIds(images) == {images[x].id : x \in 1..Len(images)}

IsConstruct(item) == item[1] = OpenWith("div", "wp-block-image")

\* the blocks of an article that hold an image construct of a source URL
ConstructsOf(blocks, url) ==
  {x \in 1..Len(blocks) : IsConstruct(blocks[x].item) /\ blocks[x].item[4].a = url}

\* C28 as stated: the img{n} keys of content are the ids of images, and no
\* id occurs twice, wherever the image constructs sit; taken here for the
\* articles whose constructs have different source URLs.
C28_ImageKeysMatchRefs ==
  (/\ ret.op = "content"
   /\ \A u \in ImageUrls : Cardinality(ConstructsOf(arg.blocks, u)) <= 1)
    => /\ ImgKeys(ret.content) = ImageIds(ret.images)
       /\ Cardinality(ImageIds(ret.images)) = Len(ret.images)

\* C29 as stated: image constructs of one source URL give one ImageRef and
\* one img key in content that holds its placeholder, also when the
\* constructs are textually identical; taken here for the articles whose
\* blocks all sit at top level.
C29_OneRefPerUrl ==
  (/\ ret.op = "content"
   /\ \A x \in 1..Len(arg.blocks) : arg.blocks[x].wrap = "none")
    => \A u \in ImageUrls :
         Cardinality(ConstructsOf(arg.blocks, u)) >= 2
           => /\ Cardinality({x \in 1..Len(ret.images) : ret.images[x].url = u}) = 1
              /\ \A x \in 1..Len(ret.images) :
                   ret.images[x].url = u
                     => Cardinality({key \in ImgKeys(ret.content) :
                                       ret.content[key] = <<PlaceholderText(ret.images[x].id)>>}) = 1

\* C30 as stated: <p>A<h2>B</h2> is normalized to <p>A</p><h2>B</h2> and
\* segmented to the content {p0: "A", h2_0: "B"}.
C30_HeadingKey ==
  (/\ ret.op = "content"
   /\ arg.html = <<Open("p"), Text(<<"A">>), Open("h2"), Text(<<"B">>), Close("h2")>>)
    => /\ ret.fixed = <<Open("p"), Text(<<"A">>), Close("p"),
                        Open("h2"), Text(<<"B">>), Close("h2")>>
       /\ ret.content = ("p0" :> <<"A">>) @@ ("h2_0" :> <<"B">>)

\* <blockquote><p>Quote <a href="#">link</a></p></blockquote>
QuoteArticle == Block("blockquote", QuoteParagraph)

\* the blockquote{n} keys of a content
BlockquoteKeys(content) ==
  {key \in DOMAIN content : \E n \in 0..MaxBlocks : key = "blockquote" \o ToString(n)}

\* the words at the two ends of a markup that are white space
EndsInSpace(html) ==
  \/ html[1].k = "text" /\ IsSpace(html[1].n[1])
  \/ html[Len(html)].k = "text" /\ IsSpace(html[Len(html)].n[Len(html[Len(html)].n)])

C32_OneItemAtATime ==
  \A t \in Tasks :
    LET waiting == {k \in 1..Len(task[t].collected) : task[t].collected[k] \notin submitted} IN
    /\ task[t].pc \in {"check", "fetch"} => waiting = {}
    /\ Cardinality(waiting) <= 1

(* ------------------------------ SpecKeys ------------------------------ *)
KeyTypes == {"p", "li", "blockquote", "img"} \cup Headings

\* the elements of a block that segmentation walks, in document order, each
\* with its text after white space and placeholders are taken out: the item
\* itself when it is an element, and around it the paragraph (which ends in
\* front of a heading or a figure) or the blockquote (which hides the item)
ElementsOfBlock(b) ==
  LET words == strip_words(words_of(b.item))
      own == IF b.item[1].k = "text" THEN <<>>
             ELSE IF IsConstruct(b.item) THEN <<[type |-> "img", text |-> <<>>]>>
             ELSE <<[type |-> b.item[1].n, text |-> words]>>
      cut == IsConstruct(b.item) \/ b.item[1].n \in ScanTags IN
  CASE b.wrap = "none" -> own
    [] b.wrap = "p" ->
         (IF cut \/ words = <<>> THEN <<>> ELSE <<[type |-> "p", text |-> words]>>) \o own
    [] b.wrap = "blockquote" ->
         IF words = <<>> THEN <<>> ELSE <<[type |-> "blockquote", text |-> words]>>

RECURSIVE ElementsOf(_)
ElementsOf(blocks) ==
  IF blocks = <<>> THEN <<>>
  ELSE ElementsOfBlock(blocks[1]) \o ElementsOf(Tail(blocks))

\* C37 as stated: for every key type the keys of content are numbered 0..k-1
\* in document order, one key per element that has text, and an element whose
\* text is empty once white space and placeholders are taken out has no entry.
C37_KeysNumbered ==
  ret.op = "content" =>
    \A type \in KeyTypes :
      LET elements == SelectSeq(ElementsOf(arg.blocks), LAMBDA x : x.type = type) IN
      \A n \in 0..(2 * MaxBlocks) :
        LET key == type \o ToString(n) IN
        /\ key \in DOMAIN ret.content <=> n < Len(elements)
        /\ n < Len(elements) /\ type \notin {"blockquote", "img"}
             => ret.content[key] = elements[n + 1].text

(* ----------------------------- SpecRehost ----------------------------- *)
\* the arguments of all calls of upload_image that a task made for an item
RECURSIVE UploadArgs(_, _)
UploadArgs(uploads, url) ==
  IF uploads = <<>> THEN <<>>
  ELSE (IF uploads[1].url = url THEN uploads[1].args ELSE <<>>)
         \o UploadArgs(Tail(uploads), url)

\* C33 as stated: no image is uploaded for an item that is skipped because
\* its title or its content is empty.
C33_ValidationBeforeRehosting ==
  \A t \in Tasks : \A f \in task[t].failed :
    f.stage \in {"title", "content"} => UploadArgs(task[t].uploads, f.url) = <<>>

\* C34 as stated: for an article that is posted, upload_image is called once
\* for each of its images, with the source URL: no URL of the image store is
\* uploaded again, and no URL is uploaded twice.
C34_UploadOncePerImage ==
  \A t \in Tasks : \A a \in submitted :
    LET args == UploadArgs(task[t].uploads, a.url) IN
    /\ \A x \in 1..Len(args) : ~IsHosted(args[x])
    /\ \A x, y \in 1..Len(args) : args[x] = args[y] => x = y

(* ------------------------------ SpecSort ------------------------------ *)
\* the reordering of found that puts later dates first and leaves links of
\* one date in the order found has them
IsNewestFirstStable(found, links) ==
  /\ Len(links) = Len(found)
  /\ \E p \in [1..Len(found) -> 1..Len(found)] :
       /\ \A k \in 1..Len(found) : links[k] = found[p[k]]
       /\ \A x, y \in 1..Len(found) :
            x < y => \/ found[p[x]].date > found[p[y]].date
                     \/ found[p[x]].date = found[p[y]].date /\ p[x] < p[y]

C24_EveryRunEnds ==
  \A t \in Tasks : (task[t].pc = "discover") ~> (task[t].pc = "done")

(* ------------------------- Spec: run telemetry ------------------------ *)
\* the kinds of task whose caller keeps the RunState of the source it runs
TrackedKinds == RunAllKinds \cup TriggerKinds

\* a task is inside run_scraper
RunInProgress(r) == r.pc = "discover" \/ InRun(r)

\* no task but t executes anything
Alone(t) == \A t2 \in Tasks \ {t} : Free(t2)

\* task t enters run_scraper in this step
StartsRun(t) == task[t].pc # "discover" /\ task'[t].pc = "discover"

\* C12 as stated: the progress of a RunState is within 0..100, and once the
\* discovery of a run started by the scheduler, POST /scrape or the monitoring
\* trigger has finished, the progress of its source is at least 10.
C12_ProgressTenAfterDiscovery ==
  /\ \A s \in Sources : scraping_progress[s].progress \in 0..100
  /\ \A t \in Tasks :
       (task[t].kind \in TrackedKinds /\ InRun(task[t]) /\ Alone(t))
         => scraping_progress[task[t].src].progress >= 10

\* C13 as stated: for the whole time a run of a source is in progress,
\* whichever path started it, the status of the source's RunState is running.
C13_RunningWhileRunInProgress ==
  \A t \in Tasks :
    (RunInProgress(task[t]) /\ Alone(t))
      => scraping_progress[task[t].src].status = "running"

\* C14 as stated: when the run of a source was ended early by an exception,
\* the step in which its caller takes the result leaves the RunState of the
\* source with status error and an error message.
C14_FailedRunEndsInError ==
  [][\A t \in Tasks :
       (/\ task[t].kind \in TrackedKinds
        /\ task[t].pc = "ret" /\ task[t].run_error
        /\ task'[t] # task[t]
        /\ Alone(t))
         => /\ scraping_progress'[task[t].src].status = "error"
            /\ scraping_progress'[task[t].src].error]_vars

\* C15 as stated: every initialized source has a RunState entry at all times.
C15_EverySourceHasRunState ==
  \A s \in Sources : scraping_progress[s].status # "absent"

\* C16 as stated: in the step that starts a run of a source, on any path, the
\* RunState of the source becomes (or is) a fresh one: running, progress 0,
\* counts 0, no end time, no error.
C16_RunStartsWithFreshRunState ==
  [][\A t \in Tasks :
       (StartsRun(t) /\ \A t2 \in Tasks \ {t} : Free(t2)')
         => scraping_progress'[task'[t].src] = FreshRunState]_vars

\* C17 as stated: once a run has started, the log list holds no entry of an
\* earlier run.
C17_LogsResetAtRunStart ==
  [][\A t \in Tasks :
       (StartsRun(t) /\ \A t2 \in Tasks \ {t} : Free(t2)')
         => scraping_logs' \subseteq {task'[t].run}]_vars

\* C18 as stated: the is-scraping flag is true exactly when a run of some
\* source is in progress, whichever path started it.
C18_FlagTrueIffRunInProgress ==
  scraping_in_progress <=> \E t \in Tasks : RunInProgress(task[t]) \/ task[t].pc = "ret"

\* C19 as stated: in the step that completes a run (of the scheduler, the API
\* or the monitoring trigger) the last-run summary becomes that run's: it
\* holds the run's total count of successfully posted articles.
C19_SummaryOfCompletedRun ==
  [][\A t \in Tasks :
       (/\ task[t].pc = "ret" /\ task'[t].pc = "done"
        /\ ~task[t].run_error /\ ~task'[t].raised
        /\ Alone(t))
         => /\ last_scrape_results'.run = task[t].run
            /\ last_scrape_results'.total = task[t].total + task[t].results]_vars

\* C38 as stated: a monitoring trigger that names an unknown source is answered
\* not-found (404) and leaves every RunState, the logs and the in-progress
\* flag as they were.
C38_UnknownSourceNotFound ==
  [][\A t \in Tasks :
       trigger_scraping(t, "unknown") /\ ~scraping_in_progress =>
         /\ response'.status = "404"
         /\ UNCHANGED <<scraping_progress, scraping_logs, scraping_in_progress>>]_vars

\* C39 as stated: the progress endpoint answers running only while a task
\* executes a run, and completed only when the RunState of every source is
\* completed; it does not answer running when every source is idle.
C39_OverallStatus ==
  /\ get_scraping_progress = "running" => \E t \in Tasks : ~Free(t)
  /\ get_scraping_progress = "completed" =>
       \A s \in Sources : scraping_progress[s].status = "completed"

(* ---------------------------- SpecTrigger ----------------------------- *)
\* a task executes trigger_scraping
TriggerExecutes == \E t \in Tasks : task[t].kind \in TriggerKinds /\ ~Free(t)

\* the request that waits in slot t is served in this step
Served(t) == Waiting(t) /\ task'[t].pc # "wait"

C20_RemoveJobIdempotent ==
  [][(/\ response'.op = "stop_scheduler_job"
      /\ (response' # response \/ jobs' # jobs))
       => LET id == response'.arg IN
          IF jobs[id] = "absent"
            THEN response'.status = "404" /\ jobs' = jobs
            ELSE /\ response'.status = "200"
                 /\ jobs' = [jobs EXCEPT ![id] = "absent"]]_vars

\* C21: schedule_scrapers never fails on a duplicate id and always ends with
\* job all_scrapers registered (once: the job store is keyed by id), the
\* earlier registration replaced by the new one.
C21_RescheduleReplaces ==
  [][(/\ response'.op = "start_scheduler"
      /\ (response' # response \/ jobs' # jobs))
       => /\ response'.status = "200"
          /\ jobs' = [jobs EXCEPT !["all_scrapers"] = "active"]]_vars

\* schedule_scrapers has replaced a registration that was there
C21_Witness ==
  /\ response.op = "start_scheduler" /\ response.removed
  /\ response.status = "200"
  /\ jobs["all_scrapers"] = "active"

\* C22 as stated: a job that is registered and is neither removed nor stopped
\* by a shutdown fires (here: with or without the run-immediately flag).
C22_RegisteredJobFires ==
  (jobs["all_scrapers"] # "absent" /\ scheduler_running /\ triggers = MaxTriggers)
    ~> (jobs["all_scrapers"] = "absent" \/ ~scheduler_running \/ triggers < MaxTriggers)

\* C23: after the shutdown of the scheduler no job fires, and a run that is
\* in flight then still runs to its end.
C23_ShutdownStopsFiring ==
  /\ [][~scheduler_running
          => \A t \in Tasks :
               (task'[t].kind = "sched" /\ task'[t].pc = "start") => task'[t] = task[t]]_vars
  /\ \A t \in Tasks : (~scheduler_running /\ ~Free(t)) ~> Free(t)

\* the scheduler was shut down while a run was in flight, with the job due
\* and triggers left
C23_Witness ==
  /\ ~scheduler_running
  /\ jobs["all_scrapers"] = "active" /\ triggers > 0
  /\ \E t \in Tasks : task[t].kind = "sched" /\ InRun(task[t])

\* the job was registered at startup, removed, and a further remove_job of
\* its id was answered not-found
C20_Witness ==
  /\ response = [op |-> "stop_scheduler_job", arg |-> "all_scrapers", status |-> "404",
                 removed |-> FALSE]
  /\ jobs = NoJobs

====
